---- MODULE Spec2Model ----
(***************************************************************************)
(* Model of the moderation bot of src/DiscordBot: the end-user report      *)
(* dialog (report.py, Report), the direct-message dispatcher               *)
(* (bot.py, ModBot.handle_dm) and the moderator queue (bot.py, ModBot).    *)
(*                                                                         *)
(* A Python str is a sequence of chunks.  Text typed by a user is a        *)
(* sequence of one-character chunks, so that ==, startswith, in, isdigit,  *)
(* int, lower, strip and re.search are computed character by character.    *)
(* Text the program itself supplies (menu options, f-string literals) is   *)
(* one chunk per literal.  The chunk "^2" stands for the one character     *)
(* U+00B2 SUPERSCRIPT TWO, for which str.isdigit() is True while int()     *)
(* raises ValueError.  Python's None is <<>> and a set optional value is   *)
(* <<v>>.                                                                  *)
(***************************************************************************)
EXTENDS Integers, Sequences, FiniteSets, TLC

\* ---------------------------------------------------------------- bounds

\* Longest moderation queue explored by the direct-message specification.
MaxDMQueue == 1

\* ------------------------------------------------------- Python str model

DecimalDigits == {"0", "1", "2", "3", "4", "5", "6", "7", "8", "9"}

\* Characters for which str.isdigit() holds: the decimal digits and the
\* digit-like characters that are not decimal (here U+00B2).
DigitChars == DecimalDigits \cup {"^2"}

WhiteSpace == {" "}

DigitVal(ch) ==
    CASE ch = "0" -> 0 [] ch = "1" -> 1 [] ch = "2" -> 2 [] ch = "3" -> 3
      [] ch = "4" -> 4 [] ch = "5" -> 5 [] ch = "6" -> 6 [] ch = "7" -> 7
      [] ch = "8" -> 8 [] ch = "9" -> 9

\* str.startswith
StartsWith(s, prefix) ==
    /\ Len(s) >= Len(prefix)
    /\ SubSeq(s, 1, Len(prefix)) = prefix

\* the one-character substring test  ch in s
Contains(s, ch) == \E i \in 1..Len(s) : s[i] = ch

\* str.isdigit: non-empty and every character a digit character
IsDigit(s) == Len(s) > 0 /\ \A i \in 1..Len(s) : s[i] \in DigitChars

RECURSIVE DecimalValue(_)
DecimalValue(s) ==
    IF s = <<>> THEN 0
    ELSE 10 * DecimalValue(SubSeq(s, 1, Len(s) - 1)) + DigitVal(s[Len(s)])

\* int(s): an optional sign followed by decimal digits; anything else raises
\* ValueError (ok = FALSE).
PyInt(s) ==
    LET signed == Len(s) > 0 /\ s[1] \in {"+", "-"}
        body   == IF signed THEN SubSeq(s, 2, Len(s)) ELSE s
        wellformed == Len(body) > 0 /\ \A i \in 1..Len(body) : body[i] \in DecimalDigits
    IN  IF wellformed
        THEN [ok |-> TRUE,
              val |-> IF signed /\ s[1] = "-" THEN 0 - DecimalValue(body)
                      ELSE DecimalValue(body)]
        ELSE [ok |-> FALSE, val |-> 0]

LowerChar(ch) ==
    CASE ch = "N" -> "n" [] ch = "O" -> "o" [] ch = "Y" -> "y"
      [] ch = "E" -> "e" [] ch = "S" -> "s" [] OTHER -> ch

\* str.lower
Lower(s) == [i \in 1..Len(s) |-> LowerChar(s[i])]

RECURSIVE LStrip(_)
LStrip(s) ==
    IF s # <<>> /\ s[1] \in WhiteSpace THEN LStrip(Tail(s)) ELSE s

RECURSIVE RStrip(_)
RStrip(s) ==
    IF s # <<>> /\ s[Len(s)] \in WhiteSpace
    THEN RStrip(SubSeq(s, 1, Len(s) - 1)) ELSE s

\* str.strip
Strip(s) == RStrip(LStrip(s))

\* End of the maximal run of decimal digits of s that starts at position i
\* (i - 1 when s[i] is no decimal digit): the greedy \d+.
RECURSIVE DigitRunEnd(_, _)
DigitRunEnd(s, i) ==
    IF i <= Len(s) /\ s[i] \in DecimalDigits THEN DigitRunEnd(s, i + 1) ELSE i - 1

\* One attempt of the pattern /(\d+)/(\d+)/(\d+) at position i.  Each of the
\* first two groups is followed by a literal "/", so only the maximal run can
\* match; the last group is greedy.
MatchLinkAt(s, i) ==
    LET e1 == DigitRunEnd(s, i + 1)
        e2 == DigitRunEnd(s, e1 + 2)
        e3 == DigitRunEnd(s, e2 + 2)
        found ==
            /\ i <= Len(s) /\ s[i] = "/"
            /\ e1 >= i + 1
            /\ e1 + 1 <= Len(s) /\ s[e1 + 1] = "/"
            /\ e2 >= e1 + 2
            /\ e2 + 1 <= Len(s) /\ s[e2 + 1] = "/"
            /\ e3 >= e2 + 2
    IN  IF found
        THEN [found |-> TRUE,
              g1 |-> DecimalValue(SubSeq(s, i + 1, e1)),
              g2 |-> DecimalValue(SubSeq(s, e1 + 2, e2)),
              g3 |-> DecimalValue(SubSeq(s, e2 + 2, e3))]
        ELSE [found |-> FALSE, g1 |-> 0, g2 |-> 0, g3 |-> 0]

\* re.search('/(\d+)/(\d+)/(\d+)', s): the leftmost position that matches.
LinkSearch(s) ==
    LET hits == {i \in 1..Len(s) : MatchLinkAt(s, i).found}
    IN  IF hits = {}
        THEN [found |-> FALSE, g1 |-> 0, g2 |-> 0, g3 |-> 0]
        ELSE MatchLinkAt(s, CHOOSE i \in hits : \A j \in hits : i <= j)

\* --------------------------------------------- Python list, dict, number

\* d[k] = v for a Python dict d held as a function.
SetItem(d, k, v) == (k :> v) @@ d

\* The slice s[-n:] for n > 0: the last n elements of s (all of s when it is
\* shorter).
LastN(s, n) == IF Len(s) <= n THEN s ELSE SubSeq(s, Len(s) - n + 1, Len(s))

\* The handlers in flight without the i-th, which has ended.
RemoveAt(s, i) == [j \in 1..(Len(s) - 1) |-> IF j < i THEN s[j] ELSE s[j + 1]]

\* A score or a probability is a non-negative fraction in lowest terms, and
\* the arithmetic on it is exact.
RECURSIVE GCD(_, _)
GCD(a, b) == IF b = 0 THEN a ELSE GCD(b, a % b)

LCM(a, b) == (a \div GCD(a, b)) * b

Rat(n, d) == LET g == GCD(n, d) IN [num |-> n \div g, den |-> d \div g]

RatAdd(x, y) ==
    LET l == LCM(x.den, y.den)
    IN  Rat(x.num * (l \div x.den) + y.num * (l \div y.den), l)

\* x - y
RatSub(x, y) == RatAdd(x, [num |-> 0 - y.num, den |-> y.den])

RatMul(x, y) == Rat(x.num * y.num, x.den * y.den)

\* x / m for a positive integer m
RatDivInt(x, m) == Rat(x.num, x.den * m)

RatLe(x, y) ==
    LET l == LCM(x.den, y.den)
    IN  x.num * (l \div x.den) <= y.num * (l \div y.den)

RatLt(x, y) == ~RatLe(y, x)

\* max(x, y)
RatMax(x, y) == IF RatLe(y, x) THEN x ELSE y

\* sum(xs)
RECURSIVE RatSum(_)
RatSum(xs) == IF xs = <<>> THEN Rat(0, 1) ELSE RatAdd(Head(xs), RatSum(Tail(xs)))

\* ------------------------------------------------- external collaborator

\* Ids of the users who write to the bot.
Users == {1, 2}

\* The chat platform as the dialog sees it: client.get_guild,
\* guild.get_channel and channel.fetch_message succeed exactly for these ids.
KnownGuilds == {1}

ChannelsOf(g) == IF g = 1 THEN {1} ELSE {}

MessagesOf(g, c) == IF g = 1 /\ c = 1 THEN {1} ELSE {}

\* The message channel.fetch_message returns: its id and its author's id.
FetchedMessage(g, c, m) == [id |-> m, guild |-> g, channel |-> c, author |-> 3]

\* ------------------------------------------------------------- report.py

CANCEL_KEYWORD == <<"c", "a", "n", "c", "e", "l">>

HELP_KEYWORD == <<"h", "e", "l", "p">>

START_KEYWORD == <<"r", "e", "p", "o", "r", "t">>

\* The members of State.
ReportStates ==
    {"REPORT_START", "AWAITING_MESSAGE", "MESSAGE_IDENTIFIED", "REPORT_COMPLETE",
     "NARROWING_DOWN_GROOMING", "ADDITIONAL_INFO", "POTENTIALLY_MORE_INFO",
     "BLOCK", "FINISH_REPORT"}

\* Report.__init__
NewReport ==
    [state |-> "REPORT_START", message |-> <<>>,
     concern_type |-> <<>>, additional_info |-> <<>>]

concern_types ==
    << <<"Threatening to share nude images">>, <<"Nudity or adult material">>,
       <<"Sexual exploitation">>, <<"Prostitution">>,
       <<"Involves someone under 18">>, <<"None">> >>

additional_info_options ==
    << <<"Impersonating someone's identity">>, <<"Trying to isolate from others">>,
       <<"Asked for private conversations off app">>,
       <<"Pressured for sensitive photos">>, <<"Tried to meet up in person">>,
       <<"None">> >>

\* What one call of handle_message yields: the Report afterwards, the replies
\* returned, the report_data handed to client.add_report_to_queue, and whether
\* the call raised instead of returning.
Outcome(rep, replies, enqueued) ==
    [report |-> rep, replies |-> replies, enqueued |-> enqueued, raised |-> FALSE]

Raised(rep) ==
    [report |-> rep, replies |-> <<>>, enqueued |-> <<>>, raised |-> TRUE]

\* The report_data dictionary built in the FINISH_REPORT branch.
ReportData(rep, author) ==
    [reporter_id |-> author,
     reported_user_id |-> rep.message[1].author,
     message |-> rep.message,
     reason |-> "Child Safety Concern",
     details |-> <<"Specific concern: ">>
                 \o (IF rep.concern_type # <<>> /\ rep.concern_type[1] # <<>>
                     THEN rep.concern_type[1] ELSE <<"Unknown">>)
                 \o <<". Additional info: ">>
                 \o (IF rep.additional_info # <<>> /\ rep.additional_info[1] # <<>>
                     THEN rep.additional_info[1] ELSE <<"None">>),
     score |-> 30,
     ml_prediction |-> <<>>]

\* An AWAITING_MESSAGE branch that leaves the state once a link was read,
\* resolvable or not.
AwaitingMessageLeavesOnAnyLink(rep, content) ==
    LET m == LinkSearch(content)
        resolvable == /\ m.g1 \in KnownGuilds
                      /\ m.g2 \in ChannelsOf(m.g1)
                      /\ m.g3 \in MessagesOf(m.g1, m.g2)
    IN  IF ~m.found
        THEN Outcome(rep, <<"I'm sorry, I couldn't read that link.">>, <<>>)
        ELSE Outcome([rep EXCEPT !.message = IF resolvable
                                             THEN <<FetchedMessage(m.g1, m.g2, m.g3)>>
                                             ELSE <<>>,
                                 !.state = "NARROWING_DOWN_GROOMING"],
                     <<"I found this message: What would you like to report?">>, <<>>)

\* The AWAITING_MESSAGE branch.
AwaitingMessage(rep, content) ==
    LET m == LinkSearch(content)
    IN  IF ~m.found
        THEN Outcome(rep, <<"I'm sorry, I couldn't read that link.">>, <<>>)
        ELSE IF m.g1 \notin KnownGuilds
        THEN Outcome(rep, <<"I cannot accept reports of messages from guilds that I'm not in.">>, <<>>)
        ELSE IF m.g2 \notin ChannelsOf(m.g1)
        THEN Outcome(rep, <<"It seems this channel was deleted or never existed.">>, <<>>)
        ELSE IF m.g3 \notin MessagesOf(m.g1, m.g2)
        THEN Outcome(rep, <<"It seems this message was deleted or never existed.">>, <<>>)
        ELSE Outcome([rep EXCEPT !.message = <<FetchedMessage(m.g1, m.g2, m.g3)>>,
                                 !.state = "NARROWING_DOWN_GROOMING"],
                     <<"I found this message: What would you like to report?">>, <<>>)

\* The NARROWING_DOWN_GROOMING branch.
NarrowingDownGrooming(rep, content) ==
    IF Contains(content, "4")
    THEN Outcome([rep EXCEPT !.state = "ADDITIONAL_INFO"],
                 <<"Which best describes this problem?">>, <<>>)
    ELSE Outcome([rep EXCEPT !.state = "REPORT_COMPLETE"],
                 <<"We have not yet built support for options other than option 4.">>, <<>>)

\* An ADDITIONAL_INFO branch that keeps the raw input of an unrecognised
\* choice, as the POTENTIALLY_MORE_INFO branch does.
AdditionalInfoStoresRaw(rep, content) ==
    IF IsDigit(content) /\ ~PyInt(content).ok
    THEN Raised(rep)
    ELSE Outcome([rep EXCEPT
                    !.concern_type =
                        IF IsDigit(content) /\ 1 <= PyInt(content).val
                                            /\ PyInt(content).val <= 6
                        THEN <<concern_types[PyInt(content).val]>>
                        ELSE <<content>>,
                    !.state = "POTENTIALLY_MORE_INFO"],
                 <<"Tell us more about what happened.">>, <<>>)

\* The ADDITIONAL_INFO branch: isdigit() and 1 <= int(content) <= 6, where
\* int raises on a digit character that is not decimal.
AdditionalInfo(rep, content) ==
    IF IsDigit(content) /\ ~PyInt(content).ok
    THEN Raised(rep)
    ELSE Outcome([rep EXCEPT
                    !.concern_type =
                        IF IsDigit(content) /\ 1 <= PyInt(content).val
                                            /\ PyInt(content).val <= 6
                        THEN <<concern_types[PyInt(content).val]>>
                        ELSE << <<"Unspecified">> >>,
                    !.state = "POTENTIALLY_MORE_INFO"],
                 <<"Tell us more about what happened.">>, <<>>)

\* The POTENTIALLY_MORE_INFO branch.
PotentiallyMoreInfo(rep, content) ==
    IF IsDigit(content) /\ ~PyInt(content).ok
    THEN Raised(rep)
    ELSE Outcome([rep EXCEPT
                    !.additional_info =
                        IF IsDigit(content) /\ 1 <= PyInt(content).val
                                            /\ PyInt(content).val <= 6
                        THEN <<additional_info_options[PyInt(content).val]>>
                        ELSE <<content>>,
                    !.state = "BLOCK"],
                 <<"Enter any additional information you would like to provide.">>, <<>>)

\* A BLOCK branch that already hands the report to the queue.
BlockEnqueues(rep, author, content) ==
    Outcome([rep EXCEPT !.state = "FINISH_REPORT"],
            <<"Would you like to block this user now?">>,
            <<ReportData(rep, author)>>)

\* The BLOCK branch.  An empty str is falsy, like None.
Block(rep, author, content) ==
    Outcome([rep EXCEPT
               !.additional_info =
                   IF Lower(content) # <<"n", "o">>
                   THEN IF rep.additional_info # <<>> /\ rep.additional_info[1] # <<>>
                        THEN <<rep.additional_info[1] \o <<" | Extra info: ">> \o content>>
                        ELSE <<<<"Extra info: ">> \o content>>
                   ELSE rep.additional_info,
               !.state = "FINISH_REPORT"],
            <<"Would you like to block this user now?">>, <<>>)

\* The FINISH_REPORT branch.  A discord.Message is always truthy.
FinishReport(rep, author, content) ==
    Outcome([rep EXCEPT !.state = "REPORT_COMPLETE"],
            IF Strip(Lower(content)) = <<"y", "e", "s">>
            THEN <<"You have blocked this user. Thank you for your report.">>
            ELSE <<"Thank you for your report.">>,
            IF rep.message # <<>> THEN <<ReportData(rep, author)>> ELSE <<>>)

\* handle_message, lines 39-159: the branch taken for the dialog's state.
\* MESSAGE_IDENTIFIED and REPORT_COMPLETE have no branch: return [].
StateBranch(rep, author, content) ==
    CASE rep.state = "REPORT_START" ->
            Outcome([rep EXCEPT !.state = "AWAITING_MESSAGE"],
                    <<"Thank you for starting the reporting process.">>, <<>>)
      [] rep.state = "AWAITING_MESSAGE" -> AwaitingMessage(rep, content)
      [] rep.state = "NARROWING_DOWN_GROOMING" -> NarrowingDownGrooming(rep, content)
      [] rep.state = "ADDITIONAL_INFO" -> AdditionalInfo(rep, content)
      [] rep.state = "POTENTIALLY_MORE_INFO" -> PotentiallyMoreInfo(rep, content)
      [] rep.state = "BLOCK" -> Block(rep, author, content)
      [] rep.state = "FINISH_REPORT" -> FinishReport(rep, author, content)
      [] OTHER -> Outcome(rep, <<>>, <<>>)

\* A handle_message that tests the cancel keyword only where no branch applies.
HandleMessageCancelLast(rep, author, content) ==
    IF rep.state \in {"REPORT_START", "AWAITING_MESSAGE", "NARROWING_DOWN_GROOMING",
                      "ADDITIONAL_INFO", "POTENTIALLY_MORE_INFO", "BLOCK", "FINISH_REPORT"}
    THEN StateBranch(rep, author, content)
    ELSE Outcome([rep EXCEPT !.state = "REPORT_COMPLETE"], <<"Report complete.">>, <<>>)

\* Report.handle_message
HandleMessage(rep, author, content) ==
    IF content = CANCEL_KEYWORD
    THEN Outcome([rep EXCEPT !.state = "REPORT_COMPLETE"], <<"Report complete.">>, <<>>)
    ELSE StateBranch(rep, author, content)

\* Report.report_complete
report_complete(rep) == rep.state = "REPORT_COMPLETE"

\* ---------------------------------------------------------- classifier.py

\* ConversationBuffer.__init__: the most messages a user's window holds, and
\* the age in hours beyond which a message leaves it.
max_messages == 50
time_window == 24

\* A _clean_old_messages that cuts a long window to its oldest messages.
CleanKeepsOldest(messages, now) ==
    LET recent == SelectSeq(messages, LAMBDA msg : now - msg.timestamp <= time_window)
    IN  IF Len(recent) > max_messages THEN SubSeq(recent, 1, max_messages) ELSE recent

\* A _clean_old_messages that looks at the length only.
CleanByLengthOnly(messages, now) ==
    IF Len(messages) > max_messages THEN LastN(messages, max_messages) ELSE messages

\* ConversationBuffer._clean_old_messages, lines 140-151: what is left of a
\* user's messages at the time `now`.
CleanOldMessages(messages, now) ==
    LET recent == SelectSeq(messages, LAMBDA msg : now - msg.timestamp <= time_window)
    IN  IF Len(recent) > max_messages THEN LastN(recent, max_messages) ELSE recent

\* An add_message that appends to the window of every user who has one.
add_messageToAll(conversations, user_id, message, inserted, cleaned) ==
    LET entry == [message |-> message, timestamp |-> inserted]
        created == IF user_id \in DOMAIN conversations
                   THEN conversations
                   ELSE SetItem(conversations, user_id, <<>>)
    IN  [x \in DOMAIN created |->
            CleanOldMessages(Append(created[x], entry), cleaned)]

\* ConversationBuffer.add_message: user_conversations afterwards.  The two
\* readings of datetime.now() are `inserted`, which stamps the message, and
\* `cleaned`, against which _clean_old_messages measures the ages.
add_message(conversations, user_id, message, inserted, cleaned) ==
    LET messages == IF user_id \in DOMAIN conversations
                    THEN conversations[user_id] ELSE <<>>
        entry == [message |-> message, timestamp |-> inserted]
    IN  SetItem(conversations, user_id,
                CleanOldMessages(Append(messages, entry), cleaned))

\* A get_conversation_context that returns nothing when nothing is asked for.
ContextOfMostRecent(conversations, user_id, include_recent) ==
    IF user_id \notin DOMAIN conversations \/ include_recent = 0
    THEN <<>>
    ELSE LET messages == LastN(conversations[user_id], include_recent)
         IN  [i \in 1..Len(messages) |-> messages[i].message]

\* ConversationBuffer.get_conversation_context for include_recent >= 0.  The
\* slice messages[-include_recent:] is the whole list for include_recent = 0,
\* where -0 is the index 0.
get_conversation_context(conversations, user_id, include_recent) ==
    IF user_id \notin DOMAIN conversations
    THEN <<>>
    ELSE LET all == conversations[user_id]
             messages == IF include_recent = 0 THEN all
                         ELSE LastN(all, include_recent)
         IN  [i \in 1..Len(messages) |-> messages[i].message]

\* UserRiskProfile.__init__: the default thresholds.
grooming_threshold == Rat(7, 10)
confidence_threshold == Rat(8, 10)

\* What predict_grooming_probability returns: probabilities in hundredths.
Prediction(prob, conf, class, error) ==
    [grooming_probability |-> Rat(prob, 100), confidence |-> Rat(conf, 100),
     predicted_class |-> class, error |-> error]

\* The result predict_grooming_probability returns when the model call raised.
ErrorPrediction == Prediction(0, 0, 0, TRUE)

\* The profile update_user_score creates on first contact.
NewProfile ==
    [risk_score |-> Rat(50, 1),
     total_messages |-> 0,
     flagged_messages |-> 0,
     predictions_history |-> <<>>,
     last_updated |-> 0,
     highest_risk_score |-> Rat(50, 1)]

\* A flag test that also counts a probability or confidence equal to its
\* threshold.
FlaggedOnThreshold(pred) ==
    /\ RatLe(grooming_threshold, pred.grooming_probability)
    /\ RatLe(confidence_threshold, pred.confidence)

\* grooming_prob > self.grooming_threshold and confidence > self.confidence_threshold
Flagged(pred) ==
    /\ RatLt(grooming_threshold, pred.grooming_probability)
    /\ RatLt(confidence_threshold, pred.confidence)

\* A truncation that keeps the oldest hundred entries.
TruncateKeepsOldest(history) ==
    IF Len(history) > 100 THEN SubSeq(history, 1, 100) ELSE history

\* update_user_score, lines 201-202: predictions_history[-100:] once the
\* history is longer than 100.
TruncateHistory(history) ==
    IF Len(history) > 100 THEN LastN(history, 100) ELSE history

\* The weighted scores of the predictions whose confidence is above the
\* threshold, in the order of the predictions.
RECURSIVE WeightedScores(_)
WeightedScores(predictions) ==
    IF predictions = <<>> THEN <<>>
    ELSE LET pred == Head(predictions)
             rest == WeightedScores(Tail(predictions))
         IN  IF RatLt(confidence_threshold, pred.confidence)
             THEN <<RatMul(pred.grooming_probability, pred.confidence)>> \o rest
             ELSE rest

\* A score update that smooths towards the newest classification alone
\* instead of the average over the ten latest.
RiskScoreTowardsNewest(risk_score, history) ==
    LET weighted_scores == WeightedScores(LastN(history, 1))
    IN  IF weighted_scores # <<>>
        THEN RatAdd(RatMul(risk_score, Rat(7, 10)),
                    RatMul(RatMul(weighted_scores[1], Rat(100, 1)), Rat(3, 10)))
        ELSE risk_score

\* update_user_score, lines 211-225: the risk score after the update, from
\* the score before it and the history that already holds the new entry.
RiskScoreAfter(risk_score, history) ==
    LET recent_predictions == LastN(history, 10)
        weighted_scores == WeightedScores(recent_predictions)
    IN  IF recent_predictions # <<>> /\ weighted_scores # <<>>
        THEN LET avg_weighted_score ==
                     RatDivInt(RatSum(weighted_scores), Len(weighted_scores))
                 new_component == RatMul(avg_weighted_score, Rat(100, 1))
             IN  RatAdd(RatMul(risk_score, Rat(7, 10)),
                        RatMul(new_component, Rat(3, 10)))
        ELSE risk_score

\* A highest score that follows the current score down.
HighestIsCurrent(highest_risk_score, risk_score) == risk_score

\* update_user_score, lines 227-230
HighestAfter(highest_risk_score, risk_score) ==
    RatMax(highest_risk_score, risk_score)

\* UserRiskProfile.update_user_score: user_profiles afterwards.  datetime.now()
\* is the number of the call on this profile, so later calls carry later
\* timestamps.
update_user_score(profiles, user_id, prediction_result) ==
    LET before == IF user_id \in DOMAIN profiles THEN profiles[user_id] ELSE NewProfile
        total == before.total_messages + 1
        prediction_entry ==
            [timestamp |-> total,
             grooming_probability |-> prediction_result.grooming_probability,
             confidence |-> prediction_result.confidence,
             predicted_class |-> prediction_result.predicted_class]
        history == TruncateHistory(Append(before.predictions_history, prediction_entry))
        risk == RiskScoreAfter(before.risk_score, history)
    IN  SetItem(profiles, user_id,
            [risk_score |-> risk,
             total_messages |-> total,
             flagged_messages |-> IF Flagged(prediction_result)
                                  THEN before.flagged_messages + 1
                                  ELSE before.flagged_messages,
             predictions_history |-> history,
             last_updated |-> total,
             highest_risk_score |-> HighestAfter(before.highest_risk_score, risk)])

\* A get_user_risk_level whose breakpoints belong to the label below them.
get_user_risk_levelAboveBreakpoints(profiles, user_id) ==
    IF user_id \notin DOMAIN profiles
    THEN [level |-> "unknown", score |-> Rat(50, 1)]
    ELSE LET score == profiles[user_id].risk_score
         IN  [level |-> IF RatLt(Rat(90, 1), score) THEN "critical"
                        ELSE IF RatLt(Rat(75, 1), score) THEN "high"
                        ELSE IF RatLt(Rat(60, 1), score) THEN "medium"
                        ELSE IF RatLt(Rat(40, 1), score) THEN "low"
                        ELSE "minimal",
              score |-> score]

\* A get_user_risk_level that grades a user without a profile by the score
\* it returns for them.
get_user_risk_levelGradesUnknown(profiles, user_id) ==
    LET score == IF user_id \in DOMAIN profiles
                 THEN profiles[user_id].risk_score ELSE Rat(50, 1)
    IN  [level |-> IF RatLe(Rat(90, 1), score) THEN "critical"
                   ELSE IF RatLe(Rat(75, 1), score) THEN "high"
                   ELSE IF RatLe(Rat(60, 1), score) THEN "medium"
                   ELSE IF RatLe(Rat(40, 1), score) THEN "low"
                   ELSE "minimal",
         score |-> score]

\* UserRiskProfile.get_user_risk_level
get_user_risk_level(profiles, user_id) ==
    IF user_id \notin DOMAIN profiles
    THEN [level |-> "unknown", score |-> Rat(50, 1)]
    ELSE LET score == profiles[user_id].risk_score
         IN  [level |-> IF RatLe(Rat(90, 1), score) THEN "critical"
                        ELSE IF RatLe(Rat(75, 1), score) THEN "high"
                        ELSE IF RatLe(Rat(60, 1), score) THEN "medium"
                        ELSE IF RatLe(Rat(40, 1), score) THEN "low"
                        ELSE "minimal",
              score |-> score]

\* How many of the predictions are above both thresholds.
HighConfidenceFlags(predictions) ==
    Cardinality({i \in 1..Len(predictions) : Flagged(predictions[i])})

\* A should_escalate that asks for two high-confidence flags only.
ShouldEscalateOnTwoFlags(profiles, user_id) ==
    IF user_id \notin DOMAIN profiles
    THEN [escalate |-> FALSE, reason |-> "No profile data"]
    ELSE LET profile == profiles[user_id]
         IN  IF RatLe(Rat(90, 1), profile.risk_score)
             THEN [escalate |-> TRUE, reason |-> "Critical risk score"]
             ELSE IF HighConfidenceFlags(LastN(profile.predictions_history, 10)) >= 2
             THEN [escalate |-> TRUE, reason |-> "Multiple high-confidence flags"]
             ELSE [escalate |-> FALSE, reason |-> "No escalation needed"]

\* A should_escalate without the rule on the ten latest classifications.
ShouldEscalateOnLastFiveOnly(profiles, user_id) ==
    IF user_id \notin DOMAIN profiles
    THEN [escalate |-> FALSE, reason |-> "No profile data"]
    ELSE LET profile == profiles[user_id]
         IN  IF RatLe(Rat(90, 1), profile.risk_score)
             THEN [escalate |-> TRUE, reason |-> "Critical risk score"]
             ELSE IF /\ Len(profile.predictions_history) >= 5
                     /\ HighConfidenceFlags(LastN(profile.predictions_history, 5)) >= 3
             THEN [escalate |-> TRUE, reason |-> "Consistent high-risk behavior"]
             ELSE [escalate |-> FALSE, reason |-> "No escalation needed"]

\* A should_escalate that looks at the last 5 entries before the last 10.
ShouldEscalateRecentFirst(profiles, user_id) ==
    IF user_id \notin DOMAIN profiles
    THEN [escalate |-> FALSE, reason |-> "No profile data"]
    ELSE LET profile == profiles[user_id]
         IN  IF RatLe(Rat(90, 1), profile.risk_score)
             THEN [escalate |-> TRUE, reason |-> "Critical risk score"]
             ELSE IF /\ Len(profile.predictions_history) >= 5
                     /\ HighConfidenceFlags(LastN(profile.predictions_history, 5)) >= 3
             THEN [escalate |-> TRUE, reason |-> "Consistent high-risk behavior"]
             ELSE IF HighConfidenceFlags(LastN(profile.predictions_history, 10)) >= 3
             THEN [escalate |-> TRUE, reason |-> "Multiple high-confidence flags"]
             ELSE [escalate |-> FALSE, reason |-> "No escalation needed"]

\* UserRiskProfile.should_escalate
should_escalate(profiles, user_id) ==
    IF user_id \notin DOMAIN profiles
    THEN [escalate |-> FALSE, reason |-> "No profile data"]
    ELSE LET profile == profiles[user_id]
         IN  IF RatLe(Rat(90, 1), profile.risk_score)
             THEN [escalate |-> TRUE, reason |-> "Critical risk score"]
             ELSE IF HighConfidenceFlags(LastN(profile.predictions_history, 10)) >= 3
             THEN [escalate |-> TRUE, reason |-> "Multiple high-confidence flags"]
             ELSE IF /\ Len(profile.predictions_history) >= 5
                     /\ HighConfidenceFlags(LastN(profile.predictions_history, 5)) >= 3
             THEN [escalate |-> TRUE, reason |-> "Consistent high-risk behavior"]
             ELSE [escalate |-> FALSE, reason |-> "No escalation needed"]

\* ------------------------------------------------ backend/bot_backend.py

BAN_THRESHOLD == 75
SUSPEND_THRESHOLD == 65
REPORT_THRESHOLD == 80
\* Threshold for message count
MESSAGE_THRESHOLD == 5

\* The row of table users that add_user inserts: it names user_id,
\* profile_name and age, and the other columns take the defaults of
\* backend/schema.sql, no flag set and no message counted.
NewUser ==
    [banned |-> FALSE, suspended |-> FALSE, suspension_len |-> 0,
     reported_law |-> FALSE, risk_score |-> Rat(0, 1), message_count |-> 0]

\* check_user_exists
check_user_exists(stats, user_id) == user_id \in DOMAIN stats

\* add_user: table users afterwards.  A second row for a user_id is an
\* IntegrityError, which is printed.
add_user(stats, user_id) ==
    IF user_id \in DOMAIN stats THEN stats
    ELSE [x \in DOMAIN stats \cup {user_id} |->
             IF x = user_id THEN NewUser ELSE stats[x]]

\* update_risk_score: the score is weighted by the share of
\* MESSAGE_THRESHOLD messages the user has written, this one included.
update_risk_score(stats, user_id, ml_risk_score) ==
    LET message_count == stats[user_id].message_count + 1
        overall_risk_score ==
            IF message_count < MESSAGE_THRESHOLD
            THEN RatMul(ml_risk_score, Rat(message_count, MESSAGE_THRESHOLD))
            ELSE ml_risk_score
    IN  [stats EXCEPT ![user_id].risk_score = overall_risk_score,
                      ![user_id].message_count = message_count]

\* log_conversation: table users afterwards.  The row it inserts into table
\* conversations is read back by get_user_stats and used by no caller.
log_conversation(stats, user_id, ml_risk_score) ==
    update_risk_score(stats, user_id, ml_risk_score)

\* get_user_stats for a user who has a row.
get_user_stats(stats, user_id) == stats[user_id]

\* update_ban
update_ban(stats, user_id, banned) ==
    [stats EXCEPT ![user_id].banned = banned]

\* update_suspension
update_suspension(stats, user_id, suspended, len) ==
    [stats EXCEPT ![user_id].suspended = suspended,
                  ![user_id].suspension_len = len]

\* update_report_to_law
update_report_to_law(stats, user_id, banned, reported) ==
    [stats EXCEPT ![user_id].banned = banned,
                  ![user_id].reported_law = reported]

\* ---------------------------------------------------------------- bot.py

VARIABLES
    reports,               \* ModBot.reports: user id -> Report
    mod_reports,           \* ModBot.mod_reports: the moderation queue
    current_report_index,  \* ModBot.current_report_index: the cursor
    user_scores,           \* ModBot.user_scores: user id -> moderator-set score
    user_profiles,         \* UserRiskProfile.user_profiles: user id -> profile
    last,                  \* history: the step taken last and what it saw
    visited,               \* history: cursor positions of the latest run of !next
    script,                \* scenario: user id -> messages still to be sent
    fed,                   \* scenario: user id -> messages sent so far
    user_conversations,    \* ConversationBuffer.user_conversations
    clock,                 \* what datetime.now() returns, in hours
    tasks,                 \* the handlers suspended at an await
    user_stats,            \* backend/user_stats.db, table users: user id -> row
    consequences           \* history: user id -> the automatic consequences
                           \* handle_backend_updates applied, oldest first

vars ==
    <<reports, mod_reports, current_report_index, user_scores, user_profiles,
      last, visited, script, fed, user_conversations, clock, tasks,
      user_stats, consequences>>

\* The store of bot_backend and what was applied from it.
backend == <<user_stats, consequences>>

\* What the handlers of the report dialog, the queue and the profiles leave
\* alone.
elsewhere == <<user_conversations, clock, tasks, backend>>

\* A ModReport built without the score it was given: the default, score=50.
ModReportDefaultScore(report_data) ==
    [reporter_id |-> report_data.reporter_id,
     reported_user_id |-> report_data.reported_user_id,
     message |-> report_data.message,
     reason |-> report_data.reason,
     details |-> report_data.details,
     score |-> 50,
     ml_prediction |-> report_data.ml_prediction,
     status |-> "pending",
     mod_actions |-> <<>>]

\* ModReport.__init__ (the timestamp is not modelled: no operation reads it)
ModReport(report_data) ==
    [reporter_id |-> report_data.reporter_id,
     reported_user_id |-> report_data.reported_user_id,
     message |-> report_data.message,
     reason |-> report_data.reason,
     details |-> report_data.details,
     score |-> report_data.score,
     ml_prediction |-> report_data.ml_prediction,
     status |-> "pending",
     mod_actions |-> <<>>]

\* An add_report_to_queue that inserts the new report at the front.
AddReportInFront(queue, report_data) == <<ModReport(report_data)>> \o queue

\* ModBot.add_report_to_queue
add_report_to_queue(queue, report_data) == Append(queue, ModReport(report_data))

\* The queue after every report_data of one handle_message call was added.
RECURSIVE AddAll(_, _)
AddAll(queue, datas) ==
    IF datas = <<>> THEN queue
    ELSE AddAll(add_report_to_queue(queue, Head(datas)), Tail(datas))

\* No session: what the history records for a user absent from ModBot.reports.
NoReport ==
    [state |-> "NO_SESSION", message |-> <<>>,
     concern_type |-> <<>>, additional_info |-> <<>>]

\* The history record before any step.
NoLast ==
    [op |-> "init", user |-> 0, content |-> <<>>,
     before |-> NoReport, after |-> NoReport,
     created |-> FALSE, dispatched |-> FALSE,
     replies |-> <<>>, enq |-> 0, raised |-> FALSE,
     cursor_before |-> 0 - 1, queue_before |-> <<>>,
     scores_before |-> <<>>, profiles_before |-> <<>>,
     platform |-> "", reaction |-> "",
     prediction |-> <<>>, result |-> <<>>,
     conversations_before |-> <<>>, include_recent |-> 0, task |-> <<>>,
     calls |-> 0,
     logged |-> FALSE, stored |-> NewUser, consequence |-> "none",
     stats_before |-> <<>>]

SessionOf(reps, u) == IF u \in DOMAIN reps THEN reps[u] ELSE NoReport

\* handle_dm, line 257: the message is dropped when its author has no session
\* and it does not start with the start keyword.
Dropped(reps, u, content) ==
    u \notin DOMAIN reps /\ ~StartsWith(content, START_KEYWORD)

\* handle_dm, lines 260-261: the session handle_message is called on.
SessionFor(reps, u) == IF u \notin DOMAIN reps THEN NewReport ELSE reps[u]

\* A handle_dm that never pops a finished session.
SessionsAfterKeepsFinished(reps, u, out) ==
    [x \in (DOMAIN reps) \cup {u} |-> IF x = u THEN out.report ELSE reps[x]]

\* handle_dm, lines 263-268: the session map after handle_message returned
\* `out` (a finished session is popped) or raised (the handler is abandoned
\* with the session stored as it is).
SessionsAfter(reps, u, out) ==
    IF ~out.raised /\ report_complete(out.report)
    THEN [x \in (DOMAIN reps) \ {u} |-> reps[x]]
    ELSE [x \in (DOMAIN reps) \cup {u} |-> IF x = u THEN out.report ELSE reps[x]]

\* ModBot.handle_dm for one direct message `content` of user u.
handle_dm(u, content) ==
    LET out == HandleMessage(SessionFor(reports, u), u, content)
    IN  IF content = HELP_KEYWORD
        THEN /\ UNCHANGED <<reports, mod_reports>>
             /\ last' = [NoLast EXCEPT !.op = "dm", !.user = u, !.content = content,
                            !.queue_before = mod_reports,
                            !.before = SessionOf(reports, u),
                            !.after = SessionOf(reports, u),
                            !.replies = <<"Use the report command to begin the reporting process.">>]
        ELSE IF Dropped(reports, u, content)
        THEN /\ UNCHANGED <<reports, mod_reports>>
             /\ last' = [NoLast EXCEPT !.op = "dm", !.user = u, !.content = content,
                            !.queue_before = mod_reports]
        ELSE /\ reports' = SessionsAfter(reports, u, out)
             /\ mod_reports' = AddAll(mod_reports, out.enqueued)
             /\ last' = [NoLast EXCEPT !.op = "dm", !.user = u, !.content = content,
                            !.queue_before = mod_reports,
                            !.before = SessionFor(reports, u),
                            !.after = out.report,
                            !.created = (u \notin DOMAIN reports),
                            !.dispatched = TRUE,
                            !.replies = out.replies,
                            !.enq = Len(out.enqueued),
                            !.raised = out.raised]

\* ------------------------------------------------------ moderator commands

\* The members of ModAction.
ModActions ==
    {"REPORT_TO_LAW", "BAN_USER", "INCREASE_SCORE", "SUSPEND_ACCOUNT", "NO_ACTION", "SKIP"}

\* A for loop of show_next_report that unsets the cursor when it finds no
\* pending case.
RECURSIVE ScanPendingUnsets(_, _, _)
ScanPendingUnsets(queue, index, left) ==
    IF left = 0
    THEN [index |-> 0 - 1, found |-> FALSE]
    ELSE LET nxt == (index + 1) % Len(queue)
         IN  IF queue[nxt + 1].status = "pending"
             THEN [index |-> nxt, found |-> TRUE]
             ELSE ScanPendingUnsets(queue, nxt, left - 1)

\* A for loop of show_next_report that runs one iteration short.
RECURSIVE ScanPendingOneShort(_, _, _)
ScanPendingOneShort(queue, index, left) ==
    IF left <= 1
    THEN [index |-> index, found |-> FALSE]
    ELSE LET nxt == (index + 1) % Len(queue)
         IN  IF queue[nxt + 1].status = "pending"
             THEN [index |-> nxt, found |-> TRUE]
             ELSE ScanPendingOneShort(queue, nxt, left - 1)

\* A for loop of show_next_report that stops on the first case, pending or not.
ScanPendingAnyStatus(queue, index, left) ==
    IF left = 0
    THEN [index |-> index, found |-> FALSE]
    ELSE [index |-> (index + 1) % Len(queue), found |-> TRUE]

\* show_next_report, lines 753-759: the for loop with `left` iterations to go
\* and the cursor at `index` (0-based; the queue is 1-based here).  The cursor
\* is assigned in every iteration, so it keeps the last value when the loop
\* ends without a break (found = FALSE).
RECURSIVE ScanPending(_, _, _)
ScanPending(queue, index, left) ==
    IF left = 0
    THEN [index |-> index, found |-> FALSE]
    ELSE LET nxt == (index + 1) % Len(queue)
         IN  IF queue[nxt + 1].status = "pending"
             THEN [index |-> nxt, found |-> TRUE]
             ELSE ScanPending(queue, nxt, left - 1)

PendingIndices(queue) == {i \in 0..(Len(queue) - 1) : queue[i + 1].status = "pending"}

\* ModBot.show_next_report
show_next_report ==
    IF mod_reports = <<>>
    THEN /\ UNCHANGED <<current_report_index, visited>>
         /\ last' = [NoLast EXCEPT !.op = "next",
                        !.cursor_before = current_report_index,
                        !.queue_before = mod_reports,
                        !.replies = <<"No reports in the queue.">>]
    ELSE LET scan == ScanPending(mod_reports, current_report_index, Len(mod_reports))
         IN  /\ current_report_index' = scan.index
             /\ visited' = IF scan.found
                           THEN LastN(Append(visited, scan.index),
                                      Cardinality(PendingIndices(mod_reports)))
                           ELSE visited
             /\ last' = [NoLast EXCEPT !.op = "next",
                            !.cursor_before = current_report_index,
                            !.queue_before = mod_reports,
                            !.replies = IF scan.found
                                        THEN <<"Report:">>
                                        ELSE <<"No pending reports in the queue.">>]

\* What a moderator action yields: the queue, the moderator-set scores and the
\* risk scores afterwards, and the text sent to the moderator channel.
ModOutcome(queue, scores, risks, reply) ==
    [queue |-> queue, scores |-> scores, risks |-> risks, reply |-> reply]

\* A completion that sets the status and records no action.
CompletedStatusOnly(queue, i, action) ==
    [queue EXCEPT ![i + 1].status = "completed"]

\* A completion that records the action and leaves the status.
CompletedActionOnly(queue, i, action) ==
    [queue EXCEPT ![i + 1].mod_actions = Append(@, action)]

\* report.status = "completed"; report.mod_actions.append(action), for the
\* report at the 0-based position i.
Completed(queue, i, action) ==
    [queue EXCEPT ![i + 1].status = "completed",
                  ![i + 1].mod_actions = Append(@, action)]

\* A ban_user that bans and completes the report without waiting for the
\* moderator's confirmation.
ban_userUnconfirmed(queue, scores, risks, i, platform, reaction) ==
    IF platform = "no_guild"
    THEN ModOutcome(queue, scores, risks, "Cannot access the guild for this report.")
    ELSE IF platform \in {"no_member", "rejected"}
    THEN ModOutcome(queue, scores, risks, "Error banning user:")
    ELSE ModOutcome(Completed(queue, i, "BAN_USER"), scores, risks,
                    "User has been banned.")

\* ModBot.ban_user for the report at position i.  platform: what the chat
\* platform does (no_guild: get_guild returns None; no_member: fetch_member
\* raises; rejected: guild.ban raises; ok).  reaction: the moderator's answer
\* to the confirmation (confirm, decline, timeout).
ban_user(queue, scores, risks, i, platform, reaction) ==
    IF platform = "no_guild"
    THEN ModOutcome(queue, scores, risks, "Cannot access the guild for this report.")
    ELSE IF platform = "no_member"
    THEN ModOutcome(queue, scores, risks, "Error banning user:")
    ELSE IF reaction = "timeout"
    THEN ModOutcome(queue, scores, risks, "Ban action timed out.")
    ELSE IF reaction = "decline"
    THEN ModOutcome(queue, scores, risks, "Ban canceled.")
    ELSE IF platform = "rejected"
    THEN ModOutcome(queue, scores, risks, "Error banning user:")
    ELSE ModOutcome(Completed(queue, i, "BAN_USER"), scores, risks,
                    "User has been banned.")

\* ModBot.suspend_user: rejected means member.timeout raises.
suspend_user(queue, scores, risks, i, days, platform) ==
    IF platform = "no_guild"
    THEN ModOutcome(queue, scores, risks, "Cannot access the guild for this report.")
    ELSE IF platform \in {"no_member", "rejected"}
    THEN ModOutcome(queue, scores, risks, "Error suspending user:")
    ELSE ModOutcome(Completed(queue, i, "SUSPEND_ACCOUNT"), scores, risks,
                    "User has been suspended.")

\* An increase_user_score that takes any score.
increase_user_scoreAnyScore(queue, scores, risks, i, new_score) ==
    LET reported == queue[i + 1].reported_user_id
    IN  ModOutcome(Completed(queue, i, "INCREASE_SCORE"),
                   SetItem(scores, reported, new_score),
                   IF reported \in DOMAIN risks
                   THEN [risks EXCEPT ![reported].risk_score =
                                          Rat(100 - new_score, 1)]
                   ELSE risks,
                   "User's risk score has been updated.")

\* ModBot.increase_user_score
increase_user_score(queue, scores, risks, i, new_score) ==
    IF new_score < 0 \/ new_score > 100
    THEN ModOutcome(queue, scores, risks, "Score must be between 0 and 100.")
    ELSE LET reported == queue[i + 1].reported_user_id
         IN  ModOutcome(Completed(queue, i, "INCREASE_SCORE"),
                        SetItem(scores, reported, new_score),
                        IF reported \in DOMAIN risks
                        THEN [risks EXCEPT ![reported].risk_score =
                                               Rat(100 - new_score, 1)]
                        ELSE risks,
                        "User's risk score has been updated.")

\* ModBot.report_to_law
report_to_law(queue, scores, risks, i, reaction) ==
    IF reaction = "timeout"
    THEN ModOutcome(queue, scores, risks, "Law enforcement reporting action timed out.")
    ELSE IF reaction = "decline"
    THEN ModOutcome(queue, scores, risks, "Law enforcement reporting canceled.")
    ELSE ModOutcome(Completed(queue, i, "REPORT_TO_LAW"), scores, risks,
                    "This incident has been flagged for law enforcement reporting.")

Word_ban == <<"b", "a", "n">>
Word_suspend == <<"s", "u", "s", "p", "e", "n", "d">>
Word_increase == <<"i", "n", "c", "r", "e", "a", "s", "e">>
Word_report == <<"r", "e", "p", "o", "r", "t">>
Word_none == <<"n", "o", "n", "e">>
Word_skip == <<"s", "k", "i", "p">>

\* handle_mod_action, lines 932-970, for the selected report at position i:
\* parts is content.split(), each part a string.
ActionBranch(queue, scores, risks, i, parts, platform, reaction) ==
    IF Len(parts) < 2
    THEN ModOutcome(queue, scores, risks, "Please specify an action:")
    ELSE LET action_type == Lower(parts[2])
         IN  IF action_type = Word_ban
             THEN ban_user(queue, scores, risks, i, platform, reaction)
             ELSE IF action_type = Word_suspend
             THEN IF Len(parts) < 3
                  THEN ModOutcome(queue, scores, risks,
                                  "Please specify suspension duration:")
                  ELSE IF PyInt(parts[3]).ok
                  THEN suspend_user(queue, scores, risks, i, PyInt(parts[3]).val,
                                    platform)
                  ELSE ModOutcome(queue, scores, risks,
                                  "Invalid duration. Please use a number of days.")
             ELSE IF action_type = Word_increase
             THEN IF Len(parts) < 3
                  THEN ModOutcome(queue, scores, risks, "Please specify new score:")
                  ELSE IF PyInt(parts[3]).ok
                  THEN increase_user_score(queue, scores, risks, i,
                                           PyInt(parts[3]).val)
                  ELSE ModOutcome(queue, scores, risks,
                                  "Invalid score. Please use a number.")
             ELSE IF action_type = Word_report
             THEN report_to_law(queue, scores, risks, i, reaction)
             ELSE IF action_type = Word_none
             THEN ModOutcome(Completed(queue, i, "NO_ACTION"), scores, risks,
                             "No action taken. Report marked as complete.")
             ELSE IF action_type = Word_skip
             THEN ModOutcome(queue, scores, risks,
                             "Report skipped. Use !next to move to the next report.")
             ELSE ModOutcome(queue, scores, risks, "Unknown action type.")

\* ModBot.handle_mod_action
handle_mod_action(parts, platform, reaction) ==
    LET selected == ~(mod_reports = <<>> \/ current_report_index < 0)
        out == IF selected
               THEN ActionBranch(mod_reports, user_scores, user_profiles,
                                 current_report_index, parts, platform, reaction)
               ELSE ModOutcome(mod_reports, user_scores, user_profiles,
                               "No report currently selected. Use !next to select a report.")
    IN  /\ mod_reports' = out.queue
        /\ user_scores' = out.scores
        /\ user_profiles' = out.risks
        /\ UNCHANGED current_report_index
        /\ visited' = IF out.queue = mod_reports THEN visited ELSE <<>>
        /\ last' = [NoLast EXCEPT !.op = "action",
                       !.content = parts,
                       !.dispatched = selected,
                       !.cursor_before = current_report_index,
                       !.queue_before = mod_reports,
                       !.scores_before = user_scores,
                       !.profiles_before = user_profiles,
                       !.platform = platform,
                       !.reaction = reaction,
                       !.replies = <<out.reply>>]

Word_thread == <<"t", "h", "r", "e", "a", "d">>
Word_message == <<"m", "e", "s", "s", "a", "g", "e">>

\* The text sent when a command needs a selected report and there is none.
NoReportSelected == "No report currently selected. Use !next to select a report."

\* ModBot.view_message_thread: what is sent to the moderator channel.
\* platform: no_guild (get_guild returns None), no_channel (get_channel
\* returns None), rejected (reading the history raises), ok.
view_message_thread(report, platform) ==
    IF report.message = <<>> THEN "Message not available."
    ELSE IF platform = "no_guild"
    THEN "Cannot access the guild where this message was sent."
    ELSE IF platform = "no_channel"
    THEN "Cannot access the channel where this message was sent."
    ELSE IF platform = "rejected" THEN "Error retrieving message thread:"
    ELSE "Message Thread"

\* ModBot.view_reported_message
view_reported_message(report) ==
    IF report.message = <<>> THEN "Message not available." ELSE "Reported Message"

\* A view_report_details without the guard on the queue and the cursor.
ViewUnguarded(queue, index, parts, platform) ==
    IF Len(parts) < 2 THEN "Please specify what to view:" ELSE "Reported Message"

\* ModBot.view_report_details: what is sent to the moderator channel.
ViewReply(queue, index, parts, platform) ==
    IF queue = <<>> \/ index < 0 THEN NoReportSelected
    ELSE LET report == queue[index + 1]
         IN  IF Len(parts) < 2 THEN "Please specify what to view:"
             ELSE IF parts[2] = Word_thread THEN view_message_thread(report, platform)
             ELSE IF parts[2] = Word_message THEN view_reported_message(report)
             ELSE "Unknown view type. Use thread or message."

\* ModBot.search_messages: what is sent to the moderator channel.  parts is
\* content.split(maxsplit=1); found tells whether a message of the reported
\* user in the channel history contains a keyword.
SearchReply(queue, index, parts, platform, found) ==
    IF queue = <<>> \/ index < 0 THEN NoReportSelected
    ELSE IF Len(parts) < 2 THEN "Please provide search keywords:"
    ELSE IF platform = "no_guild"
    THEN "Cannot access the guild where this message was sent."
    ELSE IF platform = "no_channel"
    THEN "Cannot access the channel where this message was sent."
    ELSE IF platform = "rejected" THEN "Error searching messages:"
    ELSE IF ~found THEN "No messages found containing the keywords:"
    ELSE "Messages Containing Keywords"

\* ModBot.view_report_details
view_report_details(parts, platform) ==
    /\ last' = [NoLast EXCEPT !.op = "view",
                   !.content = parts,
                   !.cursor_before = current_report_index,
                   !.queue_before = mod_reports,
                   !.scores_before = user_scores,
                   !.profiles_before = user_profiles,
                   !.platform = platform,
                   !.replies = <<ViewReply(mod_reports, current_report_index,
                                           parts, platform)>>]
    /\ UNCHANGED <<mod_reports, current_report_index, user_scores, user_profiles, visited>>

\* ModBot.search_messages
search_messages(parts, platform, found) ==
    /\ last' = [NoLast EXCEPT !.op = "search",
                   !.content = parts,
                   !.cursor_before = current_report_index,
                   !.queue_before = mod_reports,
                   !.scores_before = user_scores,
                   !.profiles_before = user_profiles,
                   !.platform = platform,
                   !.replies = <<SearchReply(mod_reports, current_report_index,
                                             parts, platform, found)>>]
    /\ UNCHANGED <<mod_reports, current_report_index, user_scores, user_profiles, visited>>

\* ------------------------------------------------- direct-message inputs

Txt_x == <<"x">>

GoodLink == <<"/", "1", "/", "1", "/", "1">>

\* What a user may type, by the prompt the user is answering.  The cancel
\* and help keywords may be typed at any time.
DMInputs(state) ==
    {CANCEL_KEYWORD, HELP_KEYWORD} \cup
    CASE state = "NO_SESSION" ->
            {START_KEYWORD, START_KEYWORD \o <<"s">>, Txt_x}
      [] state = "AWAITING_MESSAGE" ->
            {GoodLink, Txt_x \o GoodLink,
             <<"/", "2", "/", "1", "/", "1">>, <<"/", "1", "/", "2", "/", "1">>,
             <<"/", "1", "/", "1", "/", "1", "2">>, <<"/", "1", "/", "1">>}
      [] state = "NARROWING_DOWN_GROOMING" ->
            {<<"4">>, <<"1", "4">>, <<"3">>}
      [] state = "ADDITIONAL_INFO" ->
            {<<"7">>, <<"0">>, Txt_x, <<"^2">>}
      [] state = "POTENTIALLY_MORE_INFO" ->
            {<<"1">>, <<"7">>, <<"^2">>}
      [] state = "BLOCK" ->
            {<<"n", "o">>, <<"N", "o">>, Txt_x}
      [] state = "FINISH_REPORT" ->
            {<<" ", "Y", "e", "s">>, <<"n", "o">>}
      [] OTHER -> {}

\* ------------------------------------------------------ specifications

Init ==
    /\ reports = [x \in {} |-> NoReport]
    /\ mod_reports = <<>>
    /\ current_report_index = 0 - 1
    /\ user_scores = [x \in {} |-> 0]
    /\ user_profiles = [x \in {} |-> NewProfile]
    /\ last = NoLast
    /\ visited = <<>>
    /\ script = [x \in {} |-> <<>>]
    /\ fed = [x \in {} |-> 0]
    /\ user_conversations = [x \in {} |-> <<>>]
    /\ clock = 0
    /\ tasks = <<>>
    /\ user_stats = [x \in {} |-> NewUser]
    /\ consequences = [x \in {} |-> <<>>]

\* A user sends one direct message and the bot handles it to the end.
DirectMessage(u) ==
    /\ \E content \in DMInputs(SessionOf(reports, u).state) : handle_dm(u, content)
    /\ Len(mod_reports') <= MaxDMQueue
    /\ UNCHANGED <<current_report_index, user_scores, user_profiles, visited, script, fed>>
    /\ UNCHANGED elsewhere

Next == \E u \in Users : DirectMessage(u)

\* Direct messages handled one at a time.
Spec == Init /\ [][Next]_vars

\* ------------------------------------------------- scripted conversations

ScriptLink ==
    <<"h", "t", "t", "p", "s", ":", "/", "/", "x", "/", "1", "/", "1", "/", "1">>

\* report, a message link, 3, 1, 1, no, yes
ScriptOptionThree ==
    <<START_KEYWORD, ScriptLink, <<"3">>, <<"1">>, <<"1">>, <<"n", "o">>, <<"y", "e", "s">> >>

\* report, a message link, 4, 1, 1, no, yes
ScriptOptionFour ==
    <<START_KEYWORD, ScriptLink, <<"4">>, <<"1">>, <<"1">>, <<"n", "o">>, <<"y", "e", "s">> >>

Scripts == {ScriptOptionThree, ScriptOptionFour}

InitScenario ==
    /\ reports = [x \in {} |-> NoReport]
    /\ mod_reports = <<>>
    /\ current_report_index = 0 - 1
    /\ user_scores = [x \in {} |-> 0]
    /\ user_profiles = [x \in {} |-> NewProfile]
    /\ last = NoLast
    /\ visited = <<>>
    /\ script \in [Users -> Scripts]
    /\ fed = [u \in Users |-> 0]
    /\ user_conversations = [x \in {} |-> <<>>]
    /\ clock = 0
    /\ tasks = <<>>
    /\ user_stats = [x \in {} |-> NewUser]
    /\ consequences = [x \in {} |-> <<>>]

\* User u sends the next message of the script and the bot handles it.
Feed(u) ==
    /\ fed[u] < Len(script[u])
    /\ handle_dm(u, script[u][fed[u] + 1])
    /\ fed' = [fed EXCEPT ![u] = @ + 1]
    /\ UNCHANGED <<current_report_index, user_scores, user_profiles, visited, script>>
    /\ UNCHANGED elsewhere

NextScenario == \E u \in Users : Feed(u)

\* Every user sends a script from a fresh bot, the users interleaved.
SpecScenario == InitScenario /\ [][NextScenario]_vars

\* ------------------------------------------------------ moderation queue

\* Longest moderation queue explored by the queue specification.
MaxQueue == 2
\* Most actions recorded on the cases of the queue, all cases together.
MaxDispositions == 2

\* The report_data that handle_message hands to add_report_to_queue while it
\* handles msgs one after the other, starting from the session rep.
RECURSIVE RunDialog(_, _, _)
RunDialog(rep, author, msgs) ==
    IF msgs = <<>> THEN <<>>
    ELSE LET out == HandleMessage(rep, author, Head(msgs))
         IN  out.enqueued \o RunDialog(out.report, author, Tail(msgs))

RECURSIVE Dispositions(_)
Dispositions(queue) ==
    IF queue = <<>> THEN 0
    ELSE Len(Head(queue).mod_actions) + Dispositions(Tail(queue))

\* What the moderator types after !action, split at white space, with what
\* the platform does and how the moderator reacts to a confirmation (both
\* fixed to ok and confirm where the command does not depend on them).
ModInput(parts, platform, reaction) ==
    [parts |-> parts, platform |-> platform, reaction |-> reaction]

ModInputs ==
    { ModInput(<<"!action">>, "ok", "confirm"),
      ModInput(<<"!action", Word_ban>>, "ok", "confirm"),
      ModInput(<<"!action", Word_ban>>, "ok", "decline"),
      ModInput(<<"!action", Word_ban>>, "ok", "timeout"),
      ModInput(<<"!action", Word_ban>>, "no_guild", "confirm"),
      ModInput(<<"!action", Word_ban>>, "no_member", "confirm"),
      ModInput(<<"!action", Word_ban>>, "rejected", "confirm"),
      ModInput(<<"!action", Word_suspend>>, "ok", "confirm"),
      ModInput(<<"!action", Word_suspend, <<"7">> >>, "ok", "confirm"),
      ModInput(<<"!action", Word_suspend, <<"7">> >>, "no_guild", "confirm"),
      ModInput(<<"!action", Word_suspend, <<"7">> >>, "rejected", "confirm"),
      ModInput(<<"!action", Word_suspend, <<"x">> >>, "ok", "confirm"),
      ModInput(<<"!action", Word_increase>>, "ok", "confirm"),
      ModInput(<<"!action", Word_increase, <<"4", "0">> >>, "ok", "confirm"),
      ModInput(<<"!action", Word_increase, <<"1", "0", "1">> >>, "ok", "confirm"),
      ModInput(<<"!action", Word_increase, <<"-", "1">> >>, "ok", "confirm"),
      ModInput(<<"!action", Word_increase, <<"x">> >>, "ok", "confirm"),
      ModInput(<<"!action", Word_report>>, "ok", "confirm"),
      ModInput(<<"!action", Word_report>>, "ok", "decline"),
      ModInput(<<"!action", Word_report>>, "ok", "timeout"),
      ModInput(<<"!action", Word_none>>, "ok", "confirm"),
      ModInput(<<"!action", Word_skip>>, "ok", "confirm"),
      ModInput(<<"!action", <<"w", "a", "r", "n">> >>, "ok", "confirm") }

\* The user who files the reports of the queue; the queue commands read no
\* reporter.
Reporters == {1}

InitQueue ==
    /\ reports = [x \in {} |-> NoReport]
    /\ mod_reports = <<>>
    /\ current_report_index = 0 - 1
    /\ user_scores = [x \in {} |-> 0]
    /\ user_profiles = [x \in {} |-> NewProfile]
    /\ last = NoLast
    /\ visited = <<>>
    /\ script = [x \in {} |-> <<>>]
    /\ fed = [x \in {} |-> 0]
    /\ user_conversations = [x \in {} |-> <<>>]
    /\ clock = 0
    /\ tasks = <<>>
    /\ user_stats = [x \in {} |-> NewUser]
    /\ consequences = [x \in {} |-> <<>>]

\* User u carries a whole report dialog through, from the start keyword to the
\* block answer, with no other handler in between: the session is created by
\* the first message and removed after the last.
FileReport(u) ==
    /\ u \notin DOMAIN reports
    /\ mod_reports' = AddAll(mod_reports, RunDialog(NewReport, u, ScriptOptionFour))
    /\ Len(mod_reports') <= MaxQueue
    /\ visited' = <<>>
    /\ last' = [NoLast EXCEPT !.op = "file", !.user = u,
                   !.cursor_before = current_report_index,
                   !.queue_before = mod_reports]
    /\ UNCHANGED <<reports, current_report_index, user_scores, user_profiles, script, fed>>
    /\ UNCHANGED elsewhere

\* A moderator sends !next.
NextCommand ==
    /\ show_next_report
    /\ UNCHANGED <<reports, mod_reports, user_scores, user_profiles, script, fed>>
    /\ UNCHANGED elsewhere

\* A moderator sends one of the !action commands of inputs; the platform and
\* the moderator's reaction to a confirmation are whatever they turn out to be.
ActionCommandFrom(inputs) ==
    /\ \E in \in inputs : handle_mod_action(in.parts, in.platform, in.reaction)
    /\ Dispositions(mod_reports') <= MaxDispositions
    /\ UNCHANGED <<reports, script, fed>>
    /\ UNCHANGED elsewhere

ActionCommand == ActionCommandFrom(ModInputs)

\* What the moderator types after !view, with what the platform does.
ViewInputs ==
    { ModInput(<<"!view">>, "ok", "confirm"),
      ModInput(<<"!view", Word_thread>>, "ok", "confirm"),
      ModInput(<<"!view", Word_thread>>, "no_channel", "confirm"),
      ModInput(<<"!view", Word_message>>, "ok", "confirm") }

\* A moderator sends a !view command.
ViewCommand ==
    /\ \E in \in ViewInputs : view_report_details(in.parts, in.platform)
    /\ UNCHANGED <<reports, script, fed>>
    /\ UNCHANGED elsewhere

\* What the moderator types after !search, with what the platform does.
SearchInputs ==
    { ModInput(<<"!search">>, "ok", "confirm"),
      ModInput(<<"!search", <<"x">> >>, "ok", "confirm"),
      ModInput(<<"!search", <<"x">> >>, "rejected", "confirm") }

\* A moderator sends a !search command; the channel history holds a matching
\* message or it does not.
SearchCommand ==
    /\ \E in \in SearchInputs, found \in BOOLEAN :
           search_messages(in.parts, in.platform, found)
    /\ UNCHANGED <<reports, script, fed>>
    /\ UNCHANGED elsewhere

NextQueue ==
    \/ \E u \in Reporters : FileReport(u)
    \/ NextCommand
    \/ ActionCommand

\* Reports filed and moderator commands handled one at a time.
SpecQueue == InitQueue /\ [][NextQueue]_vars

\* --------------------------------------------- confirmations pending

\* Most handlers waiting for a moderator's reaction at the same time.
MaxPending == 2

\* A handler of handle_mod_action suspended at wait_for('reaction_add') in
\* ban_user or report_to_law: `index` is the position of the ModReport that
\* line 932 bound to `report`; the queue is only ever appended to, so the
\* object stays at that position.
ModTask(action_type, index) == [action |-> action_type, index |-> index]

\* A moderator sends `!action ban` or `!action report` and the handler runs
\* up to the wait for the reaction.  A ban_user that finds no guild or no
\* member ends before the wait and changes nothing.
BeginConfirmation ==
    /\ ~(mod_reports = <<>> \/ current_report_index < 0)
    /\ Len(tasks) < MaxPending
    /\ \E action_type \in {Word_ban, Word_report} :
          /\ tasks' = Append(tasks, ModTask(action_type, current_report_index))
          /\ last' = [NoLast EXCEPT !.op = "confirming",
                         !.content = <<"!action", action_type>>,
                         !.dispatched = TRUE,
                         !.cursor_before = current_report_index,
                         !.queue_before = mod_reports,
                         !.scores_before = user_scores,
                         !.profiles_before = user_profiles]
    /\ UNCHANGED <<reports, mod_reports, current_report_index, user_scores,
                   user_profiles, visited, script, fed, user_conversations, clock,
                   backend>>

\* The wait of a pending handler ends, with the moderator's reaction or
\* with the timeout, and the handler runs to its end.
ReactionArrives(k) ==
    /\ k \in 1..Len(tasks)
    /\ \E reaction \in {"confirm", "decline", "timeout"}, platform \in {"ok", "rejected"} :
          LET t == tasks[k]
              out == IF t.action = Word_ban
                     THEN ban_user(mod_reports, user_scores, user_profiles,
                                   t.index, platform, reaction)
                     ELSE report_to_law(mod_reports, user_scores, user_profiles,
                                        t.index, reaction)
          IN  /\ t.action = Word_report => platform = "ok"
              /\ mod_reports' = out.queue
              /\ user_scores' = out.scores
              /\ user_profiles' = out.risks
              /\ visited' = IF out.queue = mod_reports THEN visited ELSE <<>>
              /\ tasks' = RemoveAt(tasks, k)
              /\ last' = [NoLast EXCEPT !.op = "confirmed",
                             !.content = <<"!action", t.action>>,
                             !.dispatched = TRUE,
                             !.cursor_before = current_report_index,
                             !.queue_before = mod_reports,
                             !.scores_before = user_scores,
                             !.profiles_before = user_profiles,
                             !.platform = platform,
                             !.reaction = reaction,
                             !.replies = <<out.reply>>,
                             !.task = t]
    /\ Dispositions(mod_reports') <= MaxDispositions
    /\ UNCHANGED <<reports, current_report_index, script, fed,
                   user_conversations, clock, backend>>

NextModerators ==
    \/ \E u \in Reporters : FileReport(u)
    \/ NextCommand
    \/ BeginConfirmation
    \/ \E k \in 1..MaxPending : ReactionArrives(k)

\* Moderator commands whose handlers wait for a confirmation while other
\* commands are handled.
SpecModerators == InitQueue /\ [][NextModerators]_vars

\* ------------------------------------------------------- risk profiles

\* Most update_user_score calls per user after the start of a behaviour.
MaxUpdates == 3

\* The users whose channel messages are classified.
Authors == {3}

\* The classifications a channel message can get: flagged, confident and
\* harmless, flagged but for the confidence that equals its threshold, the
\* error result, confident with the probability equal to its threshold, and
\* certain.
PredictionInputs ==
    { Prediction(90, 90, 1, FALSE),
      Prediction(10, 90, 0, FALSE),
      Prediction(90, 80, 1, FALSE),
      ErrorPrediction,
      Prediction(70, 90, 1, FALSE),
      Prediction(100, 100, 1, FALSE) }

\* user_profiles after update_user_score was called for user_id once for
\* each of the predictions, in their order: the calls for the first half of
\* them, then the calls for the rest on the store the first half left.
RECURSIVE Replay(_, _, _)
Replay(profiles, user_id, predictions) ==
    IF predictions = <<>> THEN profiles
    ELSE IF Len(predictions) = 1
    THEN update_user_score(profiles, user_id, predictions[1])
    ELSE LET half == Len(predictions) \div 2
             rest == SubSeq(predictions, half + 1, Len(predictions))
         IN  CHOOSE after \in
                 { Replay(first, user_id, rest) :
                     first \in { Replay(profiles, user_id,
                                        SubSeq(predictions, 1, half)) } } : TRUE

\* How many messages the classifier failed on before a behaviour starts.
WarmUps == {0, 8, 98}

InitProfile ==
    /\ reports = [x \in {} |-> NoReport]
    /\ mod_reports = <<>>
    /\ current_report_index = 0 - 1
    /\ user_scores = [x \in {} |-> 0]
    /\ \E n \in WarmUps, u \in Authors :
          user_profiles = Replay([x \in {} |-> NewProfile], u,
                                 [i \in 1..n |-> ErrorPrediction])
    /\ last = NoLast
    /\ visited = <<>>
    /\ script = [x \in {} |-> <<>>]
    /\ fed = [u \in Authors |-> 0]
    /\ user_conversations = [x \in {} |-> <<>>]
    /\ clock = 0
    /\ tasks = <<>>
    /\ user_stats = [x \in {} |-> NewUser]
    /\ consequences = [x \in {} |-> <<>>]

\* update_user_score is called for a message of user u.
UpdateUserScore(u) ==
    /\ fed[u] < MaxUpdates
    /\ \E prediction \in PredictionInputs :
          /\ user_profiles' = update_user_score(user_profiles, u, prediction)
          /\ last' = [NoLast EXCEPT !.op = "update", !.user = u,
                         !.profiles_before = user_profiles,
                         !.prediction = prediction]
    /\ fed' = [fed EXCEPT ![u] = @ + 1]
    /\ UNCHANGED <<reports, mod_reports, current_report_index, user_scores,
                   visited, script>>
    /\ UNCHANGED elsewhere

\* should_escalate is called for user u.
ShouldEscalate(u) ==
    /\ last' = [NoLast EXCEPT !.op = "should_escalate", !.user = u,
                   !.profiles_before = user_profiles,
                   !.result = should_escalate(user_profiles, u)]
    /\ UNCHANGED <<reports, mod_reports, current_report_index, user_scores,
                   user_profiles, visited, script, fed>>
    /\ UNCHANGED elsewhere

\* get_user_risk_level is called for user u.
GetUserRiskLevel(u) ==
    /\ last' = [NoLast EXCEPT !.op = "get_user_risk_level", !.user = u,
                   !.profiles_before = user_profiles,
                   !.result = get_user_risk_level(user_profiles, u)]
    /\ UNCHANGED <<reports, mod_reports, current_report_index, user_scores,
                   user_profiles, visited, script, fed>>
    /\ UNCHANGED elsewhere

NextProfile ==
    \/ \E u \in Authors : UpdateUserScore(u)
    \/ \E u \in Authors : ShouldEscalate(u)
    \/ \E u \in Authors : GetUserRiskLevel(u)

\* The risk profile store on its own: updates and escalation tests.
SpecProfile == InitProfile /\ [][NextProfile]_vars

\* ---------------------------------------------------------- risk levels

\* The risk scores a moderator can leave in a profile: increase_user_score
\* stores 100 - new_score for a new_score of 0 to 100.
ModeratorSetScores == { Rat(100 - new_score, 1) : new_score \in 0..100 }

\* An author has written one message and a moderator has set the score; the
\* author goes on to write one more message.
InitRiskLevel ==
    /\ reports = [x \in {} |-> NoReport]
    /\ mod_reports = <<>>
    /\ current_report_index = 0 - 1
    /\ user_scores = [x \in {} |-> 0]
    /\ \E score \in ModeratorSetScores, u \in Authors :
          user_profiles =
             [update_user_score([x \in {} |-> NewProfile], u, ErrorPrediction)
                 EXCEPT ![u].risk_score = score]
    /\ last = NoLast
    /\ visited = <<>>
    /\ script = [x \in {} |-> <<>>]
    /\ fed = [u \in Authors |-> MaxUpdates - 1]
    /\ user_conversations = [x \in {} |-> <<>>]
    /\ clock = 0
    /\ tasks = <<>>
    /\ user_stats = [x \in {} |-> NewUser]
    /\ consequences = [x \in {} |-> <<>>]

NextRiskLevel ==
    \/ \E u \in Authors : UpdateUserScore(u)
    \/ \E u \in Authors : GetUserRiskLevel(u)

\* Risk levels of scores set by a moderator and moved by one more message.
SpecRiskLevel == InitRiskLevel /\ [][NextRiskLevel]_vars

\* ---------------------------------------------------- escalation policy

\* How many messages an author has written before a behaviour starts.
PolicyWarmUps == {1, 8}

\* What a moderator has made of the author's risk score: nothing, or a score
\* around the critical one.
PolicyScores == {Rat(89, 1), Rat(90, 1), Rat(100, 1)}

InitPolicy ==
    /\ reports = [x \in {} |-> NoReport]
    /\ mod_reports = <<>>
    /\ current_report_index = 0 - 1
    /\ user_scores = [x \in {} |-> 0]
    /\ \E n \in PolicyWarmUps, u \in Authors :
          LET profiles == Replay([x \in {} |-> NewProfile], u,
                                 [i \in 1..n |-> ErrorPrediction])
          IN  \/ user_profiles = profiles
              \/ \E score \in PolicyScores :
                    user_profiles = [profiles EXCEPT ![u].risk_score = score]
    /\ last = NoLast
    /\ visited = <<>>
    /\ script = [x \in {} |-> <<>>]
    /\ fed = [u \in Authors |-> 0]
    /\ user_conversations = [x \in {} |-> <<>>]
    /\ clock = 0
    /\ tasks = <<>>
    /\ user_stats = [x \in {} |-> NewUser]
    /\ consequences = [x \in {} |-> <<>>]

\* The escalation policy on profiles with a history and scores up to the
\* critical one.
SpecPolicy == InitPolicy /\ [][NextProfile]_vars

\* ------------------------------------------------- a user's first messages

\* The classifications of the first messages of a user who turns from
\* harmless to grooming: two of probability 0.1, then three of probability
\* 0.85, all with confidence 0.9.
ScenarioClassifications ==
    << Prediction(10, 90, 0, FALSE),
       Prediction(10, 90, 0, FALSE),
       Prediction(85, 90, 1, FALSE),
       Prediction(85, 90, 1, FALSE),
       Prediction(85, 90, 1, FALSE) >>

\* update_user_score is called for one of the first messages of user u; the
\* message gets any of the classifications above.
ClassifyFirstMessages(u) ==
    /\ fed[u] < Len(ScenarioClassifications)
    /\ \E i \in 1..Len(ScenarioClassifications) :
          /\ user_profiles' =
                update_user_score(user_profiles, u, ScenarioClassifications[i])
          /\ last' = [NoLast EXCEPT !.op = "update", !.user = u,
                         !.profiles_before = user_profiles,
                         !.prediction = ScenarioClassifications[i]]
    /\ fed' = [fed EXCEPT ![u] = @ + 1]
    /\ UNCHANGED <<reports, mod_reports, current_report_index, user_scores,
                   visited, script>>
    /\ UNCHANGED elsewhere

InitFirstMessages ==
    /\ reports = [x \in {} |-> NoReport]
    /\ mod_reports = <<>>
    /\ current_report_index = 0 - 1
    /\ user_scores = [x \in {} |-> 0]
    /\ user_profiles = [x \in {} |-> NewProfile]
    /\ last = NoLast
    /\ visited = <<>>
    /\ script = [x \in {} |-> <<>>]
    /\ fed = [u \in Authors |-> 0]
    /\ user_conversations = [x \in {} |-> <<>>]
    /\ clock = 0
    /\ tasks = <<>>
    /\ user_stats = [x \in {} |-> NewUser]
    /\ consequences = [x \in {} |-> <<>>]

NextFirstMessages ==
    \/ \E u \in Authors : ClassifyFirstMessages(u)
    \/ \E u \in Authors : ShouldEscalate(u)
    \/ \E u \in Authors : GetUserRiskLevel(u)

\* A new user's first messages and what the store answers after each.
SpecFirstMessages == InitFirstMessages /\ [][NextFirstMessages]_vars

\* ------------------------------------------------------ the classifier

\* Longest conversation text handed to the classifier.
MaxTextLen == 6

TextChars == {" ", "a"}

\* The conversation texts: every string over TextChars up to MaxTextLen.
Texts == UNION { [1..n -> TextChars] : n \in 0..MaxTextLen }

\* What the model does when it is called: it raises, or its softmax gives
\* the grooming class this probability, in hundredths.
ModelRaises == [raises |-> TRUE, grooming |-> 0]
ModelGives(p) == [raises |-> FALSE, grooming |-> p]
ModelOutcomes == {ModelRaises} \cup { ModelGives(p) : p \in {0, 50, 51, 100} }

\* GroomingClassifier._get_raw_model_prediction for a model of two classes:
\* confidence is the larger probability, predicted_class its index (the
\* first on a tie).
get_raw_model_prediction(model) ==
    [grooming_probability |-> Rat(model.grooming, 100),
     confidence |-> Rat(IF model.grooming > 100 - model.grooming
                        THEN model.grooming ELSE 100 - model.grooming, 100),
     predicted_class |-> IF model.grooming > 100 - model.grooming THEN 1 ELSE 0,
     is_grooming |-> model.grooming > 100 - model.grooming]

\* What predict_grooming_probability returns, with the number of calls of
\* the model it made.  `error` says whether the dictionary has that key.
Predicted(prob, conf, class, is_grooming, error, filter_reason, calls) ==
    [result |-> [grooming_probability |-> prob, confidence |-> conf,
                 predicted_class |-> class, is_grooming |-> is_grooming,
                 error |-> error, filter_reason |-> filter_reason],
     raised |-> FALSE,
     calls |-> calls]

\* A predict_grooming_probability that measures the text as it is given.
PredictOnRawLength(conversation_text, model) ==
    IF Len(conversation_text) < 5
    THEN Predicted(Rat(0, 100), Rat(95, 100), 0, FALSE, FALSE,
                   "Empty or too short conversation", 0)
    ELSE IF model.raises
    THEN Predicted(Rat(0, 100), Rat(0, 100), 0, FALSE, TRUE, "", 1)
    ELSE LET raw_prediction == get_raw_model_prediction(model)
         IN  Predicted(raw_prediction.grooming_probability, raw_prediction.confidence,
                       raw_prediction.predicted_class, raw_prediction.is_grooming,
                       FALSE, "Pure ML prediction - no filtering applied", 1)

\* A predict_grooming_probability that calls the model again when the
\* first call raised.
PredictWithRetry(conversation_text, model) ==
    IF conversation_text = <<>> \/ Len(Strip(conversation_text)) < 5
    THEN Predicted(Rat(0, 100), Rat(95, 100), 0, FALSE, FALSE,
                   "Empty or too short conversation", 0)
    ELSE IF model.raises
    THEN Predicted(Rat(0, 100), Rat(0, 100), 0, FALSE, TRUE, "", 2)
    ELSE LET raw_prediction == get_raw_model_prediction(model)
         IN  Predicted(raw_prediction.grooming_probability, raw_prediction.confidence,
                       raw_prediction.predicted_class, raw_prediction.is_grooming,
                       FALSE, "Pure ML prediction - no filtering applied", 1)

\* GroomingClassifier.predict_grooming_probability
predict_grooming_probability(conversation_text, model) ==
    IF conversation_text = <<>> \/ Len(Strip(conversation_text)) < 5
    THEN Predicted(Rat(0, 100), Rat(95, 100), 0, FALSE, FALSE,
                   "Empty or too short conversation", 0)
    ELSE IF model.raises
    THEN Predicted(Rat(0, 100), Rat(0, 100), 0, FALSE, TRUE, "", 1)
    ELSE LET raw_prediction == get_raw_model_prediction(model)
         IN  Predicted(raw_prediction.grooming_probability, raw_prediction.confidence,
                       raw_prediction.predicted_class, raw_prediction.is_grooming,
                       FALSE, "Pure ML prediction - no filtering applied", 1)

\* The classifier is asked about a conversation text.
PredictGroomingProbability ==
    /\ \E conversation_text \in Texts, model \in ModelOutcomes :
          LET out == predict_grooming_probability(conversation_text, model)
          IN  last' = [NoLast EXCEPT !.op = "predict",
                          !.content = conversation_text,
                          !.prediction = model,
                          !.result = out.result,
                          !.raised = out.raised,
                          !.calls = out.calls]
    /\ UNCHANGED <<reports, mod_reports, current_report_index, user_scores,
                   user_profiles, visited, script, fed, user_conversations,
                   clock, tasks, backend>>

NextClassifier == PredictGroomingProbability

\* The classifier on its own.
SpecClassifier == Init /\ [][NextClassifier]_vars

\* -------------------------------------------------- conversation windows

\* Most add_message calls per user after the start of a behaviour.
MaxAdds == 3

\* The hours that pass before a message is buffered, and between the two
\* readings of the clock inside add_message.
Elapses == {0, 12, 13}
ElapsesInside == {0, 1}

\* The include_recent arguments context is asked with.
ContextSizes == {0, 1, 2, 10, 50, 51}

\* The users context is asked about: the author and one who never wrote.
BufferReaders == Authors \cup {4}

\* The message of user u that follows the ones buffered for u.
FollowingMessage(conversations, u) ==
    [id |-> IF u \in DOMAIN conversations /\ conversations[u] # <<>>
            THEN conversations[u][Len(conversations[u])].message.id + 1
            ELSE 1,
     guild |-> 1, channel |-> 2, author |-> u]

\* user_conversations after add_message was called `count` times for user_id
\* within the same hour: the calls for the first half, then the calls for
\* the rest on what the first half left.
RECURSIVE ReplayAdds(_, _, _)
ReplayAdds(conversations, user_id, count) ==
    IF count = 0 THEN conversations
    ELSE IF count = 1
    THEN add_message(conversations, user_id,
                     FollowingMessage(conversations, user_id), 0, 0)
    ELSE CHOOSE after \in
             { ReplayAdds(first, user_id, count - (count \div 2)) :
                 first \in { ReplayAdds(conversations, user_id, count \div 2) } } :
             TRUE

\* How many messages a user has buffered before a behaviour starts.
BufferWarmUps == {0, 48}

InitBuffer ==
    /\ reports = [x \in {} |-> NoReport]
    /\ mod_reports = <<>>
    /\ current_report_index = 0 - 1
    /\ user_scores = [x \in {} |-> 0]
    /\ user_profiles = [x \in {} |-> NewProfile]
    /\ last = NoLast
    /\ visited = <<>>
    /\ script = [x \in {} |-> <<>>]
    /\ fed = [u \in Authors |-> 0]
    /\ \E n \in BufferWarmUps, u \in Authors :
          user_conversations = ReplayAdds([x \in {} |-> <<>>], u, n)
    /\ clock = 0
    /\ tasks = <<>>
    /\ user_stats = [x \in {} |-> NewUser]
    /\ consequences = [x \in {} |-> <<>>]

\* conversation_buffer.add_message is called for a message of user u.
AddMessage(u) ==
    /\ fed[u] < MaxAdds
    /\ \E before \in Elapses, inside \in ElapsesInside :
          /\ user_conversations' =
                add_message(user_conversations, u,
                            FollowingMessage(user_conversations, u),
                            clock + before, clock + before + inside)
          /\ clock' = clock + before + inside
    /\ last' = [NoLast EXCEPT !.op = "add", !.user = u,
                   !.conversations_before = user_conversations]
    /\ fed' = [fed EXCEPT ![u] = @ + 1]
    /\ UNCHANGED <<reports, mod_reports, current_report_index, user_scores,
                   user_profiles, visited, script, tasks, backend>>

\* conversation_buffer.get_conversation_context is called for user u.
GetConversationContext(u) ==
    /\ \E include_recent \in ContextSizes :
          last' = [NoLast EXCEPT !.op = "context", !.user = u,
                      !.conversations_before = user_conversations,
                      !.include_recent = include_recent,
                      !.result = get_conversation_context(user_conversations,
                                                          u, include_recent)]
    /\ UNCHANGED <<reports, mod_reports, current_report_index, user_scores,
                   user_profiles, visited, script, fed, user_conversations,
                   clock, tasks, backend>>

NextBuffer ==
    \/ \E u \in Authors : AddMessage(u)
    \/ \E u \in BufferReaders : GetConversationContext(u)

\* The conversation buffer on its own.
SpecBuffer == InitBuffer /\ [][NextBuffer]_vars

\* ------------------------------------------- direct messages in flight

\* Most direct-message handlers suspended at the same time.
MaxInFlight == 2

\* What a user may type while earlier messages are still being handled: the
\* keywords, a text that answers no prompt, and for the prompt of the session
\* as it is stored an answer that takes the dialog on (for the link prompt
\* also a link to a message that does not exist).
InFlightInputs(state) ==
    {CANCEL_KEYWORD, HELP_KEYWORD, Txt_x} \cup
    CASE state = "NO_SESSION" -> {START_KEYWORD}
      [] state = "AWAITING_MESSAGE" ->
            {GoodLink, <<"/", "1", "/", "1", "/", "1", "2">>}
      [] state = "NARROWING_DOWN_GROOMING" -> {<<"4">>}
      [] state = "ADDITIONAL_INFO" -> {<<"7">>}
      [] state = "POTENTIALLY_MORE_INFO" -> {<<"1">>}
      [] state = "BLOCK" -> {<<"n", "o">>}
      [] state = "FINISH_REPORT" -> {<<" ", "Y", "e", "s">>}
      [] OTHER -> {}

\* A handler of handle_dm suspended at an await: at channel.fetch_message
\* inside handle_message ("fetching") or at message.channel.send of its
\* reply ("sending").  The Report that a fetching handler works on is the one
\* stored for its user, or, once that one was popped, the object `rep` that
\* only this handler still holds.
DMTask(u, content, pc) ==
    [user |-> u, content |-> content, pc |-> pc, detached |-> FALSE, rep |-> NoReport]

\* handle_message reaches `await channel.fetch_message` (report.py 47-58).
FetchSuspends(rep, content) ==
    LET m == LinkSearch(content)
    IN  /\ content # CANCEL_KEYWORD
        /\ rep.state = "AWAITING_MESSAGE"
        /\ m.found
        /\ m.g1 \in KnownGuilds
        /\ m.g2 \in ChannelsOf(m.g1)

\* self.reports.pop(author_id): the handlers of u suspended inside
\* handle_message keep the popped Report.
Detach(ts, reps, u) ==
    [j \in 1..Len(ts) |->
        IF ts[j].user = u /\ ts[j].pc = "fetching" /\ ~ts[j].detached
        THEN [ts[j] EXCEPT !.detached = TRUE, !.rep = reps[u]]
        ELSE ts[j]]

\* The session map with `rep` stored for u.
Stored(reps, u, rep) ==
    [x \in (DOMAIN reps) \cup {u} |-> IF x = u THEN rep ELSE reps[x]]

\* handle_dm from its start to its first suspension, or to its end when it
\* does not suspend (the send of the help reply is followed by nothing).
DMArrives(u) ==
    /\ Len(tasks) < MaxInFlight
    /\ \E content \in InFlightInputs(SessionOf(reports, u).state) :
          LET rep == SessionFor(reports, u)
              out == HandleMessage(rep, u, content)
              arrived == [NoLast EXCEPT !.op = "arrive", !.user = u,
                             !.content = content, !.queue_before = mod_reports,
                             !.before = SessionOf(reports, u)]
          IN  IF content = HELP_KEYWORD \/ Dropped(reports, u, content)
              THEN /\ UNCHANGED <<reports, mod_reports, tasks>>
                   /\ last' = [arrived EXCEPT !.after = SessionOf(reports, u)]
              ELSE IF FetchSuspends(rep, content)
              THEN /\ reports' = Stored(reports, u, rep)
                   /\ tasks' = Append(tasks, DMTask(u, content, "fetching"))
                   /\ last' = [arrived EXCEPT !.after = rep, !.dispatched = TRUE]
                   /\ UNCHANGED mod_reports
              ELSE /\ mod_reports' = AddAll(mod_reports, out.enqueued)
                   /\ last' = [arrived EXCEPT !.after = out.report,
                                  !.dispatched = TRUE, !.replies = out.replies,
                                  !.enq = Len(out.enqueued), !.raised = out.raised]
                   /\ IF out.raised
                      THEN /\ reports' = Stored(reports, u, out.report)
                           /\ UNCHANGED tasks
                      ELSE IF out.replies # <<>>
                      THEN /\ reports' = Stored(reports, u, out.report)
                           /\ tasks' = Append(tasks, DMTask(u, content, "sending"))
                      ELSE /\ reports' = SessionsAfter(reports, u, out)
                           /\ tasks' = IF report_complete(out.report)
                                       THEN Detach(tasks, Stored(reports, u, out.report), u)
                                       ELSE tasks
    /\ Len(mod_reports') <= MaxDMQueue
    /\ UNCHANGED <<current_report_index, user_scores, user_profiles, visited,
                   script, fed, user_conversations, clock, backend>>

\* channel.fetch_message returns or raises NotFound, and handle_message goes
\* on from report.py 58 to its return; handle_dm then suspends at the send.
FetchReturns(i) ==
    /\ i \in 1..Len(tasks)
    /\ tasks[i].pc = "fetching"
    /\ LET t == tasks[i]
           rep == IF t.detached THEN t.rep ELSE reports[t.user]
           out == AwaitingMessage(rep, t.content)
       IN  /\ reports' = IF t.detached THEN reports
                         ELSE Stored(reports, t.user, out.report)
           /\ tasks' = [tasks EXCEPT ![i] = [t EXCEPT !.pc = "sending",
                                                      !.rep = IF t.detached
                                                              THEN out.report
                                                              ELSE NoReport]]
           /\ last' = [NoLast EXCEPT !.op = "fetched", !.user = t.user,
                          !.content = t.content, !.queue_before = mod_reports,
                          !.before = rep, !.after = out.report,
                          !.replies = out.replies, !.task = t]
    /\ UNCHANGED <<mod_reports, current_report_index, user_scores, user_profiles,
                   visited, script, fed, user_conversations, clock, backend>>

\* message.channel.send returns and handle_dm runs its completion check
\* (bot.py 267-268): self.reports[author_id] raises KeyError when the
\* session was popped meanwhile.
SendReturns(i) ==
    /\ i \in 1..Len(tasks)
    /\ tasks[i].pc = "sending"
    /\ LET t == tasks[i]
           u == t.user
           missing == u \notin DOMAIN reports
           popped == ~missing /\ report_complete(reports[u])
       IN  /\ reports' = IF popped
                         THEN [x \in (DOMAIN reports) \ {u} |-> reports[x]]
                         ELSE reports
           /\ tasks' = IF popped
                       THEN Detach(RemoveAt(tasks, i), reports, u)
                       ELSE RemoveAt(tasks, i)
           /\ last' = [NoLast EXCEPT !.op = "sent", !.user = u,
                          !.content = t.content, !.queue_before = mod_reports,
                          !.before = SessionOf(reports, u),
                          !.after = SessionOf(reports', u),
                          !.raised = missing, !.task = t]
    /\ UNCHANGED <<mod_reports, current_report_index, user_scores, user_profiles,
                   visited, script, fed, user_conversations, clock, backend>>

NextInterleaved ==
    \/ \E u \in Reporters : DMArrives(u)
    \/ \E i \in 1..MaxInFlight : FetchReturns(i)
    \/ \E i \in 1..MaxInFlight : SendReturns(i)

\* Direct messages of one user whose handlers run interleaved at their awaits.
SpecInterleaved == Init /\ [][NextInterleaved]_vars

\* ------------------------------------------------------ channel messages

\* What a channel message of an author can be classified as: certainly
\* grooming, too short to classify (probability 0.0, confidence 0.95), or the
\* error result.
ChannelPredictions ==
    { Prediction(100, 100, 1, FALSE),
      Prediction(0, 95, 0, FALSE),
      ErrorPrediction }

\* Whether the analysis of a message reaches the moderators' channel
\* ("ok") or the lookup of the channel or the send raises ("raises").
Deliveries == {"ok", "raises"}

\* ModBot.auto_escalate_user: the queue afterwards.  The case is added
\* before the alert is sent, so a failing alert does not take it back.
auto_escalate_user(queue, message, ml_prediction, risk_assessment) ==
    add_report_to_queue(queue,
        [reporter_id |-> 0,
         reported_user_id |-> message.author,
         message |-> message,
         reason |-> "Automatic AI Detection",
         details |-> [escalation_reason |-> risk_assessment.escalation_reason,
                      grooming_probability |-> ml_prediction.grooming_probability,
                      confidence |-> ml_prediction.confidence,
                      risk_score |-> risk_assessment.risk_score,
                      risk_level |-> risk_assessment.risk_level],
         score |-> RatMax(Rat(10, 1),
                          RatSub(Rat(100, 1), risk_assessment.risk_score)),
         ml_prediction |-> ml_prediction])

\* handle_backend_updates that leaves out, in its third branch, the test
\* that the user is not banned.
handle_backend_updatesSuspendsBanned(stats, user_id) ==
    LET user_info == get_user_stats(stats, user_id)
    IN  IF /\ RatLt(Rat(REPORT_THRESHOLD, 1), user_info.risk_score)
           /\ ~user_info.reported_law
        THEN [stats |-> update_report_to_law(stats, user_id, TRUE, TRUE),
              consequence |-> "report"]
        ELSE IF /\ RatLt(Rat(BAN_THRESHOLD, 1), user_info.risk_score)
                /\ ~user_info.banned
        THEN [stats |-> update_ban(stats, user_id, TRUE),
              consequence |-> "ban"]
        ELSE IF /\ RatLt(Rat(SUSPEND_THRESHOLD, 1), user_info.risk_score)
                /\ ~user_info.suspended
        THEN [stats |-> update_suspension(stats, user_id, TRUE, 30),
              consequence |-> "suspend"]
        ELSE [stats |-> stats, consequence |-> "none"]

\* ModBot.handle_backend_updates up to the await of its branch: table users
\* afterwards and the consequence it goes on to announce.  The row is read
\* and written with no await in between.
handle_backend_updates(stats, user_id) ==
    LET user_info == get_user_stats(stats, user_id)
    IN  IF /\ RatLt(Rat(REPORT_THRESHOLD, 1), user_info.risk_score)
           /\ ~user_info.reported_law
        THEN [stats |-> update_report_to_law(stats, user_id, TRUE, TRUE),
              consequence |-> "report"]
        ELSE IF /\ RatLt(Rat(BAN_THRESHOLD, 1), user_info.risk_score)
                /\ ~user_info.banned
        THEN [stats |-> update_ban(stats, user_id, TRUE),
              consequence |-> "ban"]
        ELSE IF /\ RatLt(Rat(SUSPEND_THRESHOLD, 1), user_info.risk_score)
                /\ ~user_info.suspended
                /\ ~user_info.banned
        THEN [stats |-> update_suspension(stats, user_id, TRUE, 30),
              consequence |-> "suspend"]
        ELSE [stats |-> stats, consequence |-> "none"]

\* process_message_with_ml, lines 336-355, when the handler gets there
\* (`reached`): a message that was classified without error is logged for
\* its author with the score the author's profile has by then, and
\* handle_backend_updates decides on the row as logged (`stored`).
LogMessage(stats, profiles, user_id, ml_prediction, reached) ==
    IF ~reached \/ ml_prediction.error
    THEN [stats |-> stats, consequence |-> "none", logged |-> FALSE,
          stored |-> NewUser]
    ELSE LET known == IF check_user_exists(stats, user_id) THEN stats
                      ELSE add_user(stats, user_id)
             ml_risk_score == get_user_risk_level(profiles, user_id).score
             rows == log_conversation(known, user_id, ml_risk_score)
             updates == handle_backend_updates(rows, user_id)
         IN  [stats |-> updates.stats, consequence |-> updates.consequence,
              logged |-> TRUE, stored |-> rows[user_id]]

\* The consequences applied so far, after `consequence` was applied to the
\* author of message.
Applied(log, message, consequence) ==
    IF consequence = "none" THEN log
    ELSE LET u == message.author
             earlier == IF u \in DOMAIN log THEN log[u] ELSE <<>>
         IN  [x \in DOMAIN log \cup {u} |->
                 IF x = u
                 THEN Append(earlier, [message |-> message.id,
                                       kind |-> consequence])
                 ELSE log[x]]

\* ModBot.process_message_with_ml for a message of author u in the group's
\* channel: the classification updates the author's profile, the analysis
\* goes to the moderators' channel, and the author is escalated when
\* should_escalate says so and the analysis was delivered, and then the
\* message is logged in the backend, which applies a consequence.  An
\* exception ends the handler after the profile was updated.
process_message_with_ml(u, ml_prediction, delivery) ==
    LET profiles == update_user_score(user_profiles, u, ml_prediction)
        level == get_user_risk_level(profiles, u)
        escalation == should_escalate(profiles, u)
        message == [id |-> profiles[u].total_messages, guild |-> 1,
                    channel |-> 2, author |-> u]
        risk_assessment ==
            [risk_level |-> level.level,
             risk_score |-> level.score,
             should_escalate |-> escalation.escalate,
             escalation_reason |-> escalation.reason,
             total_messages |-> profiles[u].total_messages,
             flagged_messages |-> profiles[u].flagged_messages]
        entry == LogMessage(user_stats, profiles, u, ml_prediction,
                            delivery = "ok")
    IN  /\ user_profiles' = profiles
        /\ mod_reports' =
              IF delivery = "ok" /\ risk_assessment.should_escalate
              THEN auto_escalate_user(mod_reports, message, ml_prediction,
                                      risk_assessment)
              ELSE mod_reports
        /\ user_stats' = entry.stats
        /\ consequences' = Applied(consequences, message, entry.consequence)
        /\ visited' = <<>>
        /\ last' = [NoLast EXCEPT !.op = "channel", !.user = u,
                       !.cursor_before = current_report_index,
                       !.queue_before = mod_reports,
                       !.profiles_before = user_profiles,
                       !.prediction = ml_prediction,
                       !.result = risk_assessment,
                       !.logged = entry.logged,
                       !.stored = entry.stored,
                       !.consequence = entry.consequence,
                       !.stats_before = user_stats]
        /\ user_conversations' =
              add_message(user_conversations, u, message, clock, clock)
        /\ UNCHANGED <<reports, current_report_index, user_scores, script,
                       clock, tasks>>

\* Most channel messages per author in a behaviour of the whole system.
MaxMessages == 2

\* An author writes in the group's channel.
ChannelMessage(u) ==
    /\ fed[u] < MaxMessages
    /\ \E ml_prediction \in ChannelPredictions, delivery \in Deliveries :
          process_message_with_ml(u, ml_prediction, delivery)
    /\ Len(mod_reports') <= MaxQueue
    /\ fed' = [fed EXCEPT ![u] = @ + 1]

\* The scores a moderator sets with !action increase: the two ends of the
\* range and one beyond it.
ScoreInputs ==
    { ModInput(<<"!action", Word_increase, <<"0">> >>, "ok", "confirm"),
      ModInput(<<"!action", Word_increase, <<"1", "0", "0">> >>, "ok", "confirm"),
      ModInput(<<"!action", Word_increase, <<"1", "0", "1">> >>, "ok", "confirm") }

\* Most score adjustments in a behaviour of the whole system.
MaxAdjustments == 1

\* A moderator sends one of the score commands.
ScoreCommand ==
    /\ ActionCommandFrom(ScoreInputs)
    /\ Dispositions(mod_reports') <= MaxAdjustments

InitSystem ==
    /\ reports = [x \in {} |-> NoReport]
    /\ mod_reports = <<>>
    /\ current_report_index = 0 - 1
    /\ user_scores = [x \in {} |-> 0]
    /\ user_profiles = [x \in {} |-> NewProfile]
    /\ last = NoLast
    /\ visited = <<>>
    /\ script = [x \in {} |-> <<>>]
    /\ fed = [u \in Authors |-> 0]
    /\ user_conversations = [x \in {} |-> <<>>]
    /\ clock = 0
    /\ tasks = <<>>
    /\ user_stats = [x \in {} |-> NewUser]
    /\ consequences = [x \in {} |-> <<>>]

NextSystem ==
    \/ \E u \in Authors : ChannelMessage(u)
    \/ \E u \in Reporters : FileReport(u)
    \/ NextCommand
    \/ ScoreCommand

\* Classified channel messages, user reports and the moderators' score
\* adjustments together.
SpecSystem == InitSystem /\ [][NextSystem]_vars

\* ------------------------------------------- channel messages in flight

\* A risk_assessment built from the author's profile as it was before the
\* message's own update.
AssessmentOfEarlierProfile(before, profiles, u) ==
    LET known == IF u \in DOMAIN before THEN before ELSE profiles
        level == get_user_risk_level(known, u)
        escalation == should_escalate(known, u)
    IN  [risk_level |-> level.level,
         risk_score |-> level.score,
         should_escalate |-> escalation.escalate,
         escalation_reason |-> escalation.reason,
         total_messages |-> known[u].total_messages,
         flagged_messages |-> known[u].flagged_messages]

\* process_message_with_ml, lines 301-311: the risk_assessment of a message
\* of author u, whose update made `profiles` of `before`.
Assessment(before, profiles, u) ==
    LET level == get_user_risk_level(profiles, u)
        escalation == should_escalate(profiles, u)
    IN  [risk_level |-> level.level,
         risk_score |-> level.score,
         should_escalate |-> escalation.escalate,
         escalation_reason |-> escalation.reason,
         total_messages |-> profiles[u].total_messages,
         flagged_messages |-> profiles[u].flagged_messages]

\* A handler of process_message_with_ml suspended at its first await, the
\* send of the analysis (line 328), with its local variables.
MLTask(message, ml_prediction, risk_assessment) ==
    [user |-> message.author, message |-> message, pc |-> "analysis",
     prediction |-> ml_prediction, assessment |-> risk_assessment]

\* process_message_with_ml from its start to its first await: the message
\* enters the author's window, is classified, updates the profile and is
\* assessed, with no await in between.
MessageArrives(u, predictions) ==
    /\ Len(tasks) < MaxInFlight
    /\ \E ml_prediction \in predictions :
          LET profiles == update_user_score(user_profiles, u, ml_prediction)
              message == FollowingMessage(user_conversations, u)
              risk_assessment == Assessment(user_profiles, profiles, u)
          IN  /\ user_conversations' =
                    add_message(user_conversations, u, message, clock, clock)
              /\ user_profiles' = profiles
              /\ tasks' = Append(tasks, MLTask(message, ml_prediction, risk_assessment))
              /\ last' = [NoLast EXCEPT !.op = "channel arrives", !.user = u,
                             !.cursor_before = current_report_index,
                             !.queue_before = mod_reports,
                             !.profiles_before = user_profiles,
                             !.conversations_before = user_conversations,
                             !.prediction = ml_prediction,
                             !.result = risk_assessment]
    /\ fed' = [fed EXCEPT ![u] = @ + 1]
    /\ UNCHANGED <<reports, mod_reports, current_report_index, user_scores,
                   visited, script, clock, backend>>

\* An author writes in the group's channel while earlier messages are
\* still being handled.
ChannelMessageArrives(u) ==
    /\ fed[u] < MaxMessages
    /\ MessageArrives(u, ChannelPredictions \cup PredictionInputs)

\* The send of the analysis returns or raises, and the handler goes on from
\* line 328.  When its assessment says so it escalates the author and is
\* suspended again at the send of the alert (auto_escalate_user, line 609);
\* otherwise it logs the message in the backend and ends.  An exception of
\* the send ends it.
AnalysisSent(k) ==
    /\ k \in 1..Len(tasks)
    /\ tasks[k].pc = "analysis"
    /\ \E delivery \in Deliveries :
          LET t == tasks[k]
              escalates == delivery = "ok" /\ t.assessment.should_escalate
              entry == LogMessage(user_stats, user_profiles, t.user,
                                  t.prediction, delivery = "ok" /\ ~escalates)
          IN  /\ mod_reports' =
                    IF escalates
                    THEN auto_escalate_user(mod_reports, t.message, t.prediction,
                                            t.assessment)
                    ELSE mod_reports
              /\ tasks' = IF escalates
                          THEN [tasks EXCEPT ![k].pc = "escalation"]
                          ELSE RemoveAt(tasks, k)
              /\ user_stats' = entry.stats
              /\ consequences' = Applied(consequences, t.message, entry.consequence)
              /\ visited' = <<>>
              /\ last' = [NoLast EXCEPT !.op = "analysis sent", !.user = t.user,
                             !.cursor_before = current_report_index,
                             !.queue_before = mod_reports,
                             !.profiles_before = user_profiles,
                             !.prediction = t.prediction,
                             !.result = t.assessment,
                             !.task = t,
                             !.logged = entry.logged,
                             !.stored = entry.stored,
                             !.consequence = entry.consequence,
                             !.stats_before = user_stats]
    /\ UNCHANGED <<reports, current_report_index, user_scores, user_profiles,
                   script, fed, user_conversations, clock>>

\* The send of the alert returns or raises, which auto_escalate_user
\* catches, and the handler goes on from line 333: it logs the message in
\* the backend and ends.
EscalationSent(k) ==
    /\ k \in 1..Len(tasks)
    /\ tasks[k].pc = "escalation"
    /\ LET t == tasks[k]
           entry == LogMessage(user_stats, user_profiles, t.user, t.prediction,
                               TRUE)
       IN  /\ tasks' = RemoveAt(tasks, k)
           /\ user_stats' = entry.stats
           /\ consequences' = Applied(consequences, t.message, entry.consequence)
           /\ last' = [NoLast EXCEPT !.op = "escalation sent", !.user = t.user,
                          !.cursor_before = current_report_index,
                          !.queue_before = mod_reports,
                          !.profiles_before = user_profiles,
                          !.prediction = t.prediction,
                          !.result = t.assessment,
                          !.task = t,
                          !.logged = entry.logged,
                          !.stored = entry.stored,
                          !.consequence = entry.consequence,
                          !.stats_before = user_stats]
    /\ UNCHANGED <<reports, mod_reports, current_report_index, user_scores,
                   user_profiles, visited, script, fed, user_conversations,
                   clock>>

NextChannels ==
    \/ \E u \in Authors : ChannelMessageArrives(u)
    \/ \E k \in 1..MaxInFlight : AnalysisSent(k) /\ Len(mod_reports') <= MaxQueue

\* Channel messages of one author whose handlers run interleaved at their
\* awaits.
SpecChannels == InitSystem /\ [][NextChannels]_vars

\* How many messages classified as certain grooming an author has written
\* before a behaviour starts.
FlaggedBefore == {0, 2}

\* The store and the windows after user_id wrote `count` messages that were
\* classified as certain grooming, none of which escalated (count < 3).
InitEscalations ==
    /\ reports = [x \in {} |-> NoReport]
    /\ mod_reports = <<>>
    /\ current_report_index = 0 - 1
    /\ user_scores = [x \in {} |-> 0]
    /\ \E n \in FlaggedBefore, u \in Authors :
          /\ user_profiles = Replay([x \in {} |-> NewProfile], u,
                                    [i \in 1..n |-> Prediction(100, 100, 1, FALSE)])
          /\ user_conversations = ReplayAdds([x \in {} |-> <<>>], u, n)
    /\ last = NoLast
    /\ visited = <<>>
    /\ script = [x \in {} |-> <<>>]
    /\ fed = [u \in Authors |-> 0]
    /\ clock = 0
    /\ tasks = <<>>
    /\ user_stats = [x \in {} |-> NewUser]
    /\ consequences = [x \in {} |-> <<>>]

\* The whole system with an author who has a record.
SpecEscalations == InitEscalations /\ [][NextSystem]_vars

\* ------------------------------------------------- backend consequences

\* Most channel messages per author in a behaviour of the backend.
MaxLogged == 3

\* How many messages classified as certain grooming an author has written,
\* each handled to its end before the next, before a behaviour starts.
LoggedBefore == {0, 3}

\* The profiles, the queue and the backend after user_id wrote `count`
\* messages that were classified as certain grooming, each handled by
\* process_message_with_ml to its end, all sends delivered.
RECURSIVE HandledBefore(_, _)
HandledBefore(user_id, count) ==
    IF count = 0
    THEN [profiles |-> [x \in {} |-> NewProfile], queue |-> <<>>,
          stats |-> [x \in {} |-> NewUser], applied |-> [x \in {} |-> <<>>]]
    ELSE LET earlier == CHOOSE e \in {HandledBefore(user_id, count - 1)} : TRUE
             ml_prediction == Prediction(100, 100, 1, FALSE)
             profiles == update_user_score(earlier.profiles, user_id,
                                           ml_prediction)
             message == FollowingMessage(
                            ReplayAdds([x \in {} |-> <<>>], user_id, count - 1),
                            user_id)
             risk_assessment == Assessment(earlier.profiles, profiles, user_id)
             entry == LogMessage(earlier.stats, profiles, user_id,
                                 ml_prediction, TRUE)
         IN  [profiles |-> profiles,
              queue |-> IF risk_assessment.should_escalate
                        THEN auto_escalate_user(earlier.queue, message,
                                                ml_prediction, risk_assessment)
                        ELSE earlier.queue,
              stats |-> entry.stats,
              applied |-> Applied(earlier.applied, message, entry.consequence)]

InitBackend ==
    /\ reports = [x \in {} |-> NoReport]
    /\ current_report_index = 0 - 1
    /\ user_scores = [x \in {} |-> 0]
    /\ \E n \in LoggedBefore, u \in Authors :
          LET handled == HandledBefore(u, n)
          IN  /\ user_profiles = handled.profiles
              /\ mod_reports = handled.queue
              /\ user_stats = handled.stats
              /\ consequences = handled.applied
              /\ user_conversations = ReplayAdds([x \in {} |-> <<>>], u, n)
    /\ last = NoLast
    /\ visited = <<>>
    /\ script = [x \in {} |-> <<>>]
    /\ fed = [u \in Authors |-> 0]
    /\ clock = 0
    /\ tasks = <<>>

\* What a logged channel message is classified as: certain, harmless, and
\* flagged short of certain.
LoggedPredictions ==
    { Prediction(100, 100, 1, FALSE),
      Prediction(0, 95, 0, FALSE),
      Prediction(90, 90, 1, FALSE) }

\* An author writes in the group's channel.
LoggedMessageArrives(u) ==
    /\ fed[u] < MaxLogged
    /\ MessageArrives(u, LoggedPredictions)

NextBackend ==
    \/ \E u \in Authors : LoggedMessageArrives(u)
    \/ \E k \in 1..MaxInFlight : AnalysisSent(k)
    \/ \E k \in 1..MaxInFlight : EscalationSent(k)

\* Channel messages of one author, their handlers interleaved at the awaits,
\* and the backend they log to.
SpecBackend == InitBackend /\ [][NextBackend]_vars

\* ------------------------------------------------------- several users

\* What a user types in a direct message when other users are active too:
\* the cancel keyword, or for the prompt the user sees an answer that takes
\* the dialog on.
UserDMInputs(state) ==
    InFlightInputs(state)
       \ {HELP_KEYWORD, Txt_x, <<"/", "1", "/", "1", "/", "1", "2">>}

\* What a channel message is classified as when other users are active too.
UserPredictions == {Prediction(100, 100, 1, FALSE)}

\* Most messages, in the channel or direct, of all users together.
MaxEvents == 7

\* The messages handled so far.
RECURSIVE EventsOf(_, _)
EventsOf(counts, users) ==
    IF users = {} THEN 0
    ELSE LET u == CHOOSE x \in users : TRUE
         IN  counts[u] + EventsOf(counts, users \ {u})

\* The hours that pass, once, between two messages: more than time_window.
HoursBetween == time_window + 1

InitUsers ==
    /\ reports = [x \in {} |-> NoReport]
    /\ mod_reports = <<>>
    /\ current_report_index = 0 - 1
    /\ user_scores = [x \in {} |-> 0]
    /\ user_profiles = [x \in {} |-> NewProfile]
    /\ last = NoLast
    /\ visited = <<>>
    /\ script = [x \in {} |-> <<>>]
    /\ fed = [u \in Users |-> 0]
    /\ user_conversations = [x \in {} |-> <<>>]
    /\ clock = 0
    /\ tasks = <<>>
    /\ user_stats = [x \in {} |-> NewUser]
    /\ consequences = [x \in {} |-> <<>>]

\* User u writes in the group's channel.
UserChannelMessage(u) ==
    /\ EventsOf(fed, Users) < MaxEvents
    /\ \E ml_prediction \in UserPredictions :
          process_message_with_ml(u, ml_prediction, "ok")
    /\ Len(mod_reports') <= MaxQueue
    /\ fed' = [fed EXCEPT ![u] = @ + 1]

\* User u sends a direct message and the bot handles it to the end.
UserDirectMessage(u) ==
    /\ EventsOf(fed, Users) < MaxEvents
    /\ \E content \in UserDMInputs(SessionOf(reports, u).state) : handle_dm(u, content)
    /\ Len(mod_reports') <= MaxDMQueue
    /\ fed' = [fed EXCEPT ![u] = @ + 1]
    /\ UNCHANGED <<current_report_index, user_scores, user_profiles, visited, script>>
    /\ UNCHANGED elsewhere

\* More than a day passes without a message.
TimePasses ==
    /\ clock < HoursBetween
    /\ clock' = clock + HoursBetween
    /\ UNCHANGED <<reports, mod_reports, current_report_index, user_scores,
                   user_profiles, last, visited, script, fed,
                   user_conversations, tasks, backend>>

NextUsers ==
    \/ \E u \in Users : UserChannelMessage(u)
    \/ \E u \in Users : UserDirectMessage(u)
    \/ TimePasses

\* Channel messages and direct messages of two users.
SpecUsers == InitUsers /\ [][NextUsers]_vars

\* ---------------------------------------------------- moderator console

\* The !action commands of the console specification: each way a command can
\* end (refused, completed, cancelled, skipped), once.
ConsoleInputs ==
    { ModInput(<<"!action">>, "ok", "confirm"),
      ModInput(<<"!action", Word_ban>>, "ok", "confirm"),
      ModInput(<<"!action", Word_ban>>, "ok", "decline"),
      ModInput(<<"!action", Word_increase, <<"4", "0">> >>, "ok", "confirm"),
      ModInput(<<"!action", Word_none>>, "ok", "confirm"),
      ModInput(<<"!action", Word_skip>>, "ok", "confirm") }

ConsoleAction == ActionCommandFrom(ConsoleInputs)

NextConsole ==
    \/ \E u \in Users : FileReport(u)
    \/ NextCommand
    \/ ViewCommand
    \/ SearchCommand
    \/ ConsoleAction

\* Reports filed by several users and every kind of moderator command, handled
\* one at a time.
SpecConsole == InitQueue /\ [][NextConsole]_vars

\* --------------------------------------------------------------- claims

Sessions == {reports[u] : u \in DOMAIN reports}

\* Indices of the cases user u reported.
CasesOf(u) == {i \in 1..Len(mod_reports) : mod_reports[i].reporter_id = u}

IsUserReportCase(c) ==
    c.score = 30 /\ c.status = "pending" /\ c.reason = "Child Safety Concern"

\* C1: in every non-finished dialog state (a new Report at Start, and every
\* state a stored session is in) the cancel keyword yields a finished dialog
\* and hands nothing to the queue; and when handle_dm dispatched a cancel
\* message, the dialog finished, the session is gone and the queue is as it was.
C1_CancelFinishes ==
    /\ \A rep \in Sessions \cup {NewReport} :
          LET out == HandleMessage(rep, 1, CANCEL_KEYWORD)
          IN  report_complete(out.report) /\ out.enqueued = <<>> /\ ~out.raised
    /\ (last.op = "dm" /\ last.dispatched /\ last.content = CANCEL_KEYWORD) =>
          /\ report_complete(last.after)
          /\ last.enq = 0
          /\ mod_reports = last.queue_before
          /\ last.user \notin DOMAIN reports

\* A cancel message was handled in the last state before Finished, where any
\* other message would have enqueued a case.
C1_Witness ==
    /\ last.op = "dm" /\ last.dispatched /\ last.content = CANCEL_KEYWORD
    /\ last.before.state = "FINISH_REPORT"

\* C2 as stated: the script with category 3, sent to the end, leaves exactly
\* one case of that user in the queue, with score 30, pending, and the reason
\* Child Safety Concern, and no session.
C2_AsClaimed ==
    \A u \in DOMAIN script :
        (script[u] = ScriptOptionThree /\ fed[u] = Len(script[u])) =>
            /\ u \notin DOMAIN reports
            /\ Cardinality(CasesOf(u)) = 1
            /\ \A i \in CasesOf(u) : IsUserReportCase(mod_reports[i])

\* C2 amended: the script with category 4 in place of 3 keeps its session and
\* enqueues nothing until its last message, and sent to the end leaves no
\* session and exactly one case of that user, with score 30, pending, and the
\* reason Child Safety Concern.
C2_OptionFour ==
    \A u \in DOMAIN script :
        script[u] = ScriptOptionFour =>
            /\ fed[u] \in 1..(Len(script[u]) - 1) =>
                  u \in DOMAIN reports /\ CasesOf(u) = {}
            /\ fed[u] = Len(script[u]) =>
                  /\ u \notin DOMAIN reports
                  /\ Cardinality(CasesOf(u)) = 1
                  /\ \A i \in CasesOf(u) : IsUserReportCase(mod_reports[i])

\* Both users have sent the category-4 script to the end.
C2_Witness ==
    \A u \in Users : script[u] = ScriptOptionFour /\ fed[u] = Len(script[u])

\* C3: a handled direct message appends to the queue exactly what the dialog
\* enqueued, at most one case, and only on the step that takes the dialog from
\* its last state (the answer to the block prompt) to Finished, after which the
\* session is gone, so that no session enqueues twice.
C3_EnqueueOnlyAtFinish ==
    last.op = "dm" =>
        /\ Len(mod_reports) = Len(last.queue_before) + last.enq
        /\ SubSeq(mod_reports, 1, Len(last.queue_before)) = last.queue_before
        /\ last.enq <= 1
        /\ last.enq = 1 =>
              /\ last.before.state = "FINISH_REPORT"
              /\ report_complete(last.after)
              /\ last.user \notin DOMAIN reports
              /\ mod_reports[Len(mod_reports)].reporter_id = last.user

\* A dialog has just enqueued its case.
C3_Witness == last.op = "dm" /\ last.enq = 1

\* C4 as stated: at the category prompt every message other than the supported
\* option 4 (and other than cancel) finishes the dialog with the explanation and
\* enqueues nothing; only the message 4 advances to the concern prompt.
C4_OnlySupportedOptionAdvances ==
    (/\ last.op = "dm" /\ last.dispatched
     /\ last.before.state = "NARROWING_DOWN_GROOMING"
     /\ last.content # CANCEL_KEYWORD) =>
        IF last.content = <<"4">>
        THEN last.after.state = "ADDITIONAL_INFO" /\ last.enq = 0
        ELSE /\ report_complete(last.after)
             /\ last.replies = <<"We have not yet built support for options other than option 4.">>
             /\ last.enq = 0
             /\ last.user \notin DOMAIN reports

\* Links that do not resolve, with the re-prompt each one gets.
UnresolvedLinks ==
    {[content |-> <<"/", "1", "/", "1">>,
      reply |-> "I'm sorry, I couldn't read that link."],
     [content |-> <<"/", "2", "/", "1", "/", "1">>,
      reply |-> "I cannot accept reports of messages from guilds that I'm not in."],
     [content |-> <<"/", "1", "/", "2", "/", "1">>,
      reply |-> "It seems this channel was deleted or never existed."],
     [content |-> <<"/", "1", "/", "1", "/", "1", "2">>,
      reply |-> "It seems this message was deleted or never existed."]}

ResolvedLinks == {GoodLink, Txt_x \o GoodLink}

\* C5: at the link prompt a malformed link, an unknown guild, an unknown
\* channel and a missing message each get their re-prompt and leave the session
\* (state and stored message) as it was, still in the session map; a link that
\* resolves stores the message found and moves to the category prompt.
C5_LinkPrompt ==
    (/\ last.op = "dm" /\ last.dispatched
     /\ last.before.state = "AWAITING_MESSAGE") =>
        /\ last.before.message = <<>>
        /\ \A l \in UnresolvedLinks :
              last.content = l.content =>
                  /\ last.replies = <<l.reply>>
                  /\ last.after = last.before
                  /\ reports[last.user] = last.before
                  /\ last.enq = 0 /\ ~last.raised
        /\ last.content \in ResolvedLinks =>
              /\ last.after.state = "NARROWING_DOWN_GROOMING"
              /\ last.after.message = <<FetchedMessage(1, 1, 1)>>
              /\ reports[last.user] = last.after
        /\ last.after.state = "NARROWING_DOWN_GROOMING" =>
              last.content \in ResolvedLinks

\* A link to an unknown channel was answered at the link prompt.
C5_Witness ==
    /\ last.op = "dm" /\ last.dispatched
    /\ last.before.state = "AWAITING_MESSAGE"
    /\ last.content = <<"/", "1", "/", "2", "/", "1">>

\* The digit strings that name a choice 1..6.
ChoiceInputs == {<<"1">>, <<"2">>, <<"3">>, <<"4">>, <<"5">>, <<"6">>}

\* A message answered at the concern prompt or at the additional-context
\* prompt that is neither cancel nor a choice 1..6.
UnrecognisedChoice ==
    /\ last.op = "dm" /\ last.dispatched
    /\ last.before.state \in {"ADDITIONAL_INFO", "POTENTIALLY_MORE_INFO"}
    /\ last.content # CANCEL_KEYWORD
    /\ last.content \notin ChoiceInputs

C7_SessionLifecycle ==
    /\ \A u \in DOMAIN reports : ~report_complete(reports[u])
    /\ (last.op = "dm" /\ last.created) =>
          /\ StartsWith(last.content, START_KEYWORD)
          /\ last.before = NewReport
    /\ (last.op = "dm" /\ ~last.dispatched) =>
          /\ (last.before.state = "NO_SESSION") <=> (last.user \notin DOMAIN reports)
          /\ last.user \in DOMAIN reports => reports[last.user] = last.before

\* A user whose earlier dialog finished with a case starts a new dialog.
C7_Witness ==
    /\ last.op = "dm" /\ last.created
    /\ CasesOf(last.user) # {}

\* ------------------------------------------------------------ queue claims

\* How many cyclic steps lead from the cursor position c to position j in a
\* queue of n cases, counting the step onto j.
StepsFrom(c, j, n) == ((j - c - 1 + n) % n) + 1

\* C8: whenever at least one case is pending, !next leaves the cursor on the
\* first pending case after the previous cursor position in cyclic queue
\* order, so never on a completed case; and as many !next commands in a row
\* as there are pending cases, with no case filed or disposed of in between,
\* visit every pending case exactly once.
C8_NextVisitsPending ==
    LET pending == PendingIndices(mod_reports)
        n == Len(mod_reports)
    IN  /\ (last.op = "next" /\ PendingIndices(last.queue_before) # {}) =>
              /\ mod_reports = last.queue_before
              /\ current_report_index \in pending
              /\ \A j \in pending :
                    StepsFrom(last.cursor_before, current_report_index, n)
                        <= StepsFrom(last.cursor_before, j, n)
        /\ (pending # {} /\ Len(visited) = Cardinality(pending)) =>
              /\ {visited[i] : i \in 1..Len(visited)} = pending
              /\ \A i, j \in 1..Len(visited) : visited[i] = visited[j] => i = j

\* Two pending cases were visited by two !next commands in a row, the second
\* wrapping around the end of the queue.
C8_Witness ==
    /\ last.op = "next"
    /\ Cardinality(PendingIndices(mod_reports)) = 2
    /\ Len(visited) = 2
    /\ current_report_index < last.cursor_before

\* A completed case lay between the previous cursor position and the pending
\* case that !next landed on.
C8_SkipsCompleted ==
    /\ last.op = "next"
    /\ last.cursor_before >= 0
    /\ \E j \in 0..(Len(mod_reports) - 1) :
          /\ mod_reports[j + 1].status = "completed"
          /\ StepsFrom(last.cursor_before, j, Len(mod_reports))
                < StepsFrom(last.cursor_before, current_report_index, Len(mod_reports))
          /\ mod_reports[current_report_index + 1].status = "pending"

\* C9: when the queue is empty or holds no pending case, !next tells the
\* moderator so, and the cursor afterwards is what it was before.
C9_EmptyLeavesCursor ==
    (last.op = "next" /\ PendingIndices(last.queue_before) = {}) =>
        /\ current_report_index = last.cursor_before
        /\ mod_reports = last.queue_before
        /\ last.replies = IF last.queue_before = <<>>
                          THEN <<"No reports in the queue.">>
                          ELSE <<"No pending reports in the queue.">>

\* !next was sent with two cases in the queue, both completed.
C9_Witness ==
    /\ last.op = "next"
    /\ Len(mod_reports) = 2
    /\ PendingIndices(mod_reports) = {}

\* The reply that tells a disposition succeeded, and the command word it
\* belongs to.
SuccessReply ==
    [BAN_USER |-> "User has been banned.",
     SUSPEND_ACCOUNT |-> "User has been suspended.",
     INCREASE_SCORE |-> "User's risk score has been updated.",
     REPORT_TO_LAW |-> "This incident has been flagged for law enforcement reporting.",
     NO_ACTION |-> "No action taken. Report marked as complete."]

CommandWord ==
    [BAN_USER |-> Word_ban,
     SUSPEND_ACCOUNT |-> Word_suspend,
     INCREASE_SCORE |-> Word_increase,
     REPORT_TO_LAW |-> Word_report,
     NO_ACTION |-> Word_none]

\* C10: with a case selected, a ban, suspension, score change, report to the
\* authorities or no-action that succeeds sets the selected case to completed
\* and appends its own action, and nothing else changes in the queue; a skip
\* leaves the queue and the cursor as they were.
C10_Dispositions ==
    last.op = "action" =>
        /\ \A kind \in DOMAIN SuccessReply :
              last.replies = <<SuccessReply[kind]>> =>
                  /\ last.dispatched
                  /\ last.content[2] = CommandWord[kind]
                  /\ current_report_index = last.cursor_before
                  /\ mod_reports =
                        [last.queue_before EXCEPT
                            ![last.cursor_before + 1].status = "completed",
                            ![last.cursor_before + 1].mod_actions = Append(@, kind)]
        /\ \A kind \in DOMAIN SuccessReply :
              (/\ last.dispatched
               /\ Len(last.content) >= 2
               /\ last.content[2] = CommandWord[kind]
               /\ mod_reports # last.queue_before) =>
                  last.replies = <<SuccessReply[kind]>>
        /\ (last.dispatched /\ Len(last.content) >= 2 /\ last.content[2] = Word_skip) =>
              /\ mod_reports = last.queue_before
              /\ current_report_index = last.cursor_before

\* A ban succeeded on a pending case while another case of the queue had been
\* completed by a suspension.
C10_Witness ==
    /\ last.op = "action"
    /\ last.replies = <<SuccessReply.BAN_USER>>
    /\ last.queue_before[last.cursor_before + 1].status = "pending"
    /\ \E i \in 1..Len(mod_reports) : mod_reports[i].mod_actions = <<"SUSPEND_ACCOUNT">>

\* A skip was sent with a pending case selected.
C10_SkipWitness ==
    /\ last.op = "action"
    /\ last.dispatched
    /\ Len(last.content) >= 2
    /\ last.content[2] = Word_skip
    /\ mod_reports[current_report_index + 1].status = "pending"

\* C11: while the cursor is unset (-1, no !next has found a case yet), every
\* !view, !search and !action command answers that no report is selected and
\* changes no case, no score, no risk profile and not the cursor.
C11_NothingSelected ==
    (last.op \in {"view", "search", "action"} /\ last.cursor_before = 0 - 1) =>
        /\ last.replies = <<NoReportSelected>>
        /\ mod_reports = last.queue_before
        /\ user_scores = last.scores_before
        /\ user_profiles = last.profiles_before
        /\ current_report_index = 0 - 1

\* A no-action command was sent while a pending case waited in the queue and
\* the cursor was still unset.
C11_Witness ==
    /\ last.op = "action"
    /\ last.cursor_before = 0 - 1
    /\ Len(last.content) >= 2 /\ last.content[2] = Word_none
    /\ PendingIndices(mod_reports) # {}

\* A search with keywords was sent while a pending case waited in the queue
\* and the cursor was still unset.
C11_SearchWitness ==
    /\ last.op = "search"
    /\ last.cursor_before = 0 - 1
    /\ Len(last.content) >= 2
    /\ mod_reports # <<>>

\* The command handled last was a disposition of a selected case that could
\* not succeed: a ban or a report to the authorities whose confirmation timed
\* out or was declined, a ban or a suspension that the platform did not carry
\* out, a suspension or score change without a numeric argument, a score
\* outside 0..100, an unknown action type or none at all.
FailedDisposition ==
    /\ last.op = "action"
    /\ last.dispatched
    /\ \/ Len(last.content) < 2
       \/ LET word == last.content[2]
              numeric == Len(last.content) >= 3 /\ PyInt(last.content[3]).ok
          IN  \/ word = Word_ban /\ (last.reaction # "confirm" \/ last.platform # "ok")
              \/ word = Word_report /\ last.reaction # "confirm"
              \/ word = Word_suspend /\ (~numeric \/ last.platform # "ok")
              \/ word = Word_increase
                 /\ (~numeric \/ PyInt(last.content[3]).val \notin 0..100)
              \/ word \notin {Word_ban, Word_report, Word_suspend, Word_increase,
                              Word_none, Word_skip}

\* C12: a disposition that does not succeed leaves the selected case's status
\* and recorded actions as they were (and with them the whole queue, the
\* cursor and the scores).
C12_FailedDispositionKeepsCase ==
    FailedDisposition =>
        /\ mod_reports[last.cursor_before + 1].status
              = last.queue_before[last.cursor_before + 1].status
        /\ mod_reports[last.cursor_before + 1].mod_actions
              = last.queue_before[last.cursor_before + 1].mod_actions
        /\ mod_reports = last.queue_before
        /\ current_report_index = last.cursor_before
        /\ user_scores = last.scores_before

\* The moderator confirmed a ban of a pending case and the platform refused
\* to ban.
C12_Witness ==
    /\ FailedDisposition
    /\ Len(last.content) >= 2 /\ last.content[2] = Word_ban
    /\ last.platform = "rejected" /\ last.reaction = "confirm"
    /\ last.queue_before[last.cursor_before + 1].status = "pending"

\* A ban of a pending case waited for a confirmation that never came.
C12_TimeoutWitness ==
    /\ FailedDisposition
    /\ Len(last.content) >= 2 /\ last.content[2] = Word_ban
    /\ last.platform = "ok" /\ last.reaction = "timeout"
    /\ last.queue_before[last.cursor_before + 1].status = "pending"

\* The fields of a case that are set when it is created and tell it from
\* the other cases.
CaseIdentity(c) ==
    [reporter_id |-> c.reporter_id, reported_user_id |-> c.reported_user_id,
     message |-> c.message, reason |-> c.reason, details |-> c.details,
     score |-> c.score, ml_prediction |-> c.ml_prediction]

\* C13: whatever is filed and whatever the moderators send, each step leaves
\* every case of the queue at its position and at most adds cases behind
\* them: no case is removed and none changes its place.
C13_QueueAppendOnly ==
    [][/\ Len(mod_reports') >= Len(mod_reports)
       /\ \A i \in 1..Len(mod_reports) :
             CaseIdentity(mod_reports'[i]) = CaseIdentity(mod_reports[i])]_vars

\* A report of another user was filed behind a case that was already
\* completed.
C13_Witness ==
    /\ last.op = "file"
    /\ Len(mod_reports) = 2
    /\ mod_reports[1].status = "completed"
    /\ mod_reports[1].reporter_id # mod_reports[2].reporter_id
    /\ current_report_index = 0

\* The profile of the user of the last call as it was before the call: the
\* one the store held, or the one the call created.
ProfileBefore ==
    IF last.user \in DOMAIN last.profiles_before
    THEN last.profiles_before[last.user]
    ELSE NewProfile

\* The profile of the user of the last call as it is now.
ProfileAfter == user_profiles[last.user]

\* Every classification the profile holds has a confidence above the
\* confidence threshold.
AllConfident(history) ==
    \A i \in 1..Len(history) : RatLt(confidence_threshold, history[i].confidence)

\* C14: while every classification of a user has a confidence above the
\* threshold, a call of update_user_score never lowers the user's highest
\* risk score, and after the call the highest risk score is at least the
\* risk score.
C14_HighestNeverDecreases ==
    (/\ last.op = "update"
     /\ AllConfident(ProfileAfter.predictions_history))
    => /\ RatLe(ProfileBefore.highest_risk_score, ProfileAfter.highest_risk_score)
       /\ RatLe(ProfileAfter.risk_score, ProfileAfter.highest_risk_score)

\* A confident harmless classification after a confident flagged one lowered
\* the risk score and left the highest score above it.
C14_Witness ==
    /\ last.op = "update"
    /\ AllConfident(ProfileAfter.predictions_history)
    /\ Len(ProfileAfter.predictions_history) >= 2
    /\ RatLt(ProfileAfter.risk_score, ProfileBefore.risk_score)
    /\ RatLt(ProfileAfter.risk_score, ProfileAfter.highest_risk_score)
    /\ ProfileAfter.highest_risk_score = ProfileBefore.highest_risk_score

\* C15: in every state the system reaches, every profile's highest risk
\* score is at least its risk score, the moderators' score adjustments on a
\* reported user with a profile included.
C15_HighestAtLeastRisk ==
    \A u \in DOMAIN user_profiles :
        RatLe(user_profiles[u].risk_score, user_profiles[u].highest_risk_score)

\* C16: a call of update_user_score whose classification has a confidence
\* at or below the confidence threshold, the error result included, leaves
\* the risk score as it was before the call, whatever the profile held.
C16_LowConfidenceKeepsScore ==
    (/\ last.op = "update"
     /\ RatLe(last.prediction.confidence, confidence_threshold))
    => ProfileAfter.risk_score = ProfileBefore.risk_score

\* C17: from the initial 50 on, whatever is classified and whatever score the
\* moderators set, every profile's risk score is at least 0 and at most 100.
C17_RiskWithinRange ==
    \A u \in DOMAIN user_profiles :
        /\ RatLe(Rat(0, 1), user_profiles[u].risk_score)
        /\ RatLe(user_profiles[u].risk_score, Rat(100, 1))

\* A moderator had set the author's score to 0, which put the risk score at
\* 100, and the next message, certainly grooming, left it there.
C17_Witness ==
    /\ last.op = "channel"
    /\ last.user \in DOMAIN user_scores
    /\ user_scores[last.user] = 0
    /\ ProfileBefore.risk_score = Rat(100, 1)
    /\ ProfileAfter.risk_score = Rat(100, 1)
    /\ ProfileAfter.total_messages >= 2

\* A moderator had set the author's score to 100, which put the risk score
\* at 0, and the next message, too short to classify, left it there.
C17_LowWitness ==
    /\ last.op = "channel"
    /\ last.user \in DOMAIN user_scores
    /\ user_scores[last.user] = 100
    /\ ProfileBefore.risk_score = Rat(0, 1)
    /\ ProfileAfter.risk_score = Rat(0, 1)

\* C18: every call of update_user_score adds one to total_messages, and adds
\* one to flagged_messages exactly when the probability is above 0.7 and the
\* confidence above 0.8, both strictly; so no profile has more flagged
\* messages than messages.
C18_Counters ==
    /\ last.op = "update" =>
          /\ ProfileAfter.total_messages = ProfileBefore.total_messages + 1
          /\ ProfileAfter.flagged_messages =
                ProfileBefore.flagged_messages
                + (IF /\ RatLt(Rat(7, 10), last.prediction.grooming_probability)
                      /\ RatLt(Rat(8, 10), last.prediction.confidence)
                   THEN 1 ELSE 0)
    /\ \A u \in DOMAIN user_profiles :
          user_profiles[u].flagged_messages <= user_profiles[u].total_messages

\* After a flagged message, a confident message with a probability of
\* exactly 0.7 was counted as a message and not as a flagged one.
C18_Witness ==
    /\ last.op = "update"
    /\ last.prediction.grooming_probability = Rat(7, 10)
    /\ last.prediction.confidence = Rat(9, 10)
    /\ ProfileBefore.flagged_messages >= 1
    /\ ProfileAfter.flagged_messages = ProfileBefore.flagged_messages
    /\ ProfileAfter.total_messages = ProfileBefore.total_messages + 1

\* A message with a confidence of exactly 0.8 had not been counted as
\* flagged, and a message above both thresholds was.
C18_FlaggedWitness ==
    /\ last.op = "update"
    /\ ProfileAfter.flagged_messages = ProfileBefore.flagged_messages + 1
    /\ \E i \in 1..Len(ProfileBefore.predictions_history) :
          /\ ProfileBefore.predictions_history[i].confidence = Rat(8, 10)
          /\ ProfileBefore.flagged_messages = 0

\* The smaller of two numbers.
Min(a, b) == IF a <= b THEN a ELSE b

\* C19: every profile's history holds the min(total_messages, 100) latest
\* classifications in the order they arrived, and a call of
\* update_user_score puts its classification last and keeps the entries
\* before it, dropping the oldest one when there would be 101.
C19_HistoryIsRecentWindow ==
    /\ \A u \in DOMAIN user_profiles :
          LET history == user_profiles[u].predictions_history
              total == user_profiles[u].total_messages
          IN  /\ Len(history) = Min(total, 100)
              /\ \A i \in 1..Len(history) :
                    history[i].timestamp = total - Len(history) + i
    /\ last.op = "update" =>
          LET history == ProfileAfter.predictions_history
              earlier == ProfileBefore.predictions_history
              n == Len(history)
          IN  /\ history[n].grooming_probability = last.prediction.grooming_probability
              /\ history[n].confidence = last.prediction.confidence
              /\ history[n].predicted_class = last.prediction.predicted_class
              /\ \A i \in 1..(n - 1) :
                    history[i] = earlier[Len(earlier) - (n - 1) + i]

\* The 101st message of a user: the history stayed at 100 entries and lost
\* the entry of the first message.
C19_Witness ==
    /\ last.op = "update"
    /\ ProfileAfter.total_messages = 101
    /\ Len(ProfileBefore.predictions_history) = 100
    /\ ProfileBefore.predictions_history[1].timestamp = 1
    /\ Len(ProfileAfter.predictions_history) = 100
    /\ ProfileAfter.predictions_history[1].timestamp = 2

\* How many of the predictions are above both thresholds.
JointlyThresholded(predictions) ==
    Cardinality({ i \in 1..Len(predictions) :
                    /\ RatLt(grooming_threshold, predictions[i].grooming_probability)
                    /\ RatLt(confidence_threshold, predictions[i].confidence) })

\* C20: should_escalate answers no for every profile whose risk score is
\* below 90 and whose ten latest classifications hold fewer than three that
\* are above both thresholds.
C20_NoEscalationBelowThresholds ==
    (/\ last.op = "should_escalate"
     /\ last.user \in DOMAIN user_profiles
     /\ RatLt(user_profiles[last.user].risk_score, Rat(90, 1))
     /\ JointlyThresholded(LastN(user_profiles[last.user].predictions_history, 10)) < 3)
    => last.result.escalate = FALSE

\* should_escalate answered no for a profile of more than five messages with
\* two flagged ones among the ten latest.
C20_Witness ==
    /\ last.op = "should_escalate"
    /\ last.user \in DOMAIN user_profiles
    /\ Len(user_profiles[last.user].predictions_history) >= 5
    /\ RatLt(user_profiles[last.user].risk_score, Rat(90, 1))
    /\ JointlyThresholded(LastN(user_profiles[last.user].predictions_history, 10)) = 2
    /\ last.result.escalate = FALSE

\* should_escalate answered yes for a profile with a risk score below 90:
\* three of its ten latest classifications are above both thresholds.
C20_EscalatedWitness ==
    /\ last.op = "should_escalate"
    /\ last.user \in DOMAIN user_profiles
    /\ RatLt(user_profiles[last.user].risk_score, Rat(90, 1))
    /\ JointlyThresholded(LastN(user_profiles[last.user].predictions_history, 10)) = 3
    /\ last.result.escalate = TRUE

\* C21: should_escalate and get_user_risk_level only read.  After either
\* call the store holds the profiles it held before, with every field as it
\* was, and no profile more; for a user without a profile should_escalate
\* answers no and get_user_risk_level answers "unknown" with the score 50.
C21_ReadsArePure ==
    /\ last.op \in {"should_escalate", "get_user_risk_level"} =>
          user_profiles = last.profiles_before
    /\ (last.op = "should_escalate" /\ last.user \notin DOMAIN last.profiles_before)
          => last.result.escalate = FALSE
    /\ (last.op = "get_user_risk_level" /\ last.user \notin DOMAIN last.profiles_before)
          => /\ last.result.level = "unknown"
             /\ last.result.score = Rat(50, 1)

\* get_user_risk_level was asked about a user who never wrote.
C21_Witness ==
    /\ last.op = "get_user_risk_level"
    /\ last.user \notin DOMAIN user_profiles
    /\ last.result.level = "unknown"

\* should_escalate was asked about a user who never wrote.
C21_EscalateWitness ==
    /\ last.op = "should_escalate"
    /\ last.user \notin DOMAIN user_profiles
    /\ last.result.reason = "No profile data"

\* get_user_risk_level was asked about a user with a profile and a history.
C21_KnownWitness ==
    /\ last.op = "get_user_risk_level"
    /\ last.user \in DOMAIN user_profiles
    /\ user_profiles[last.user].total_messages >= 2
    /\ last.result.score = user_profiles[last.user].risk_score

\* The classification a history entry records.
EntryClassification(entry) ==
    <<entry.grooming_probability, entry.confidence, entry.predicted_class>>

\* User u has sent exactly the first k messages of the scenario: two of
\* probability 0.1, then of probability 0.85, all with confidence 0.9.
SentFirst(u, k) ==
    /\ u \in DOMAIN user_profiles
    /\ Len(user_profiles[u].predictions_history) = k
    /\ \A i \in 1..k :
          EntryClassification(user_profiles[u].predictions_history[i]) =
             IF i <= 2 THEN <<Rat(1, 10), Rat(9, 10), 0>>
                       ELSE <<Rat(85, 100), Rat(9, 10), 1>>

\* C22: for a new user whose messages are classified (0.1, 0.9) twice and
\* then (0.85, 0.9) three times, should_escalate answers no after each of
\* the first four messages and yes after the fifth, for the reason of
\* multiple high-confidence flags, and flagged_messages is 3 then.
C22_ScenarioEscalation ==
    \A u \in Authors : \A k \in 1..5 :
        SentFirst(u, k) =>
            /\ should_escalate(user_profiles, u).escalate = (k = 5)
            /\ k = 5 =>
                  /\ should_escalate(user_profiles, u).reason =
                        "Multiple high-confidence flags"
                  /\ user_profiles[u].flagged_messages = 3

\* should_escalate was asked after the fifth message of the scenario.
C22_Witness ==
    /\ last.op = "should_escalate"
    /\ SentFirst(last.user, 5)
    /\ last.result.escalate = TRUE

\* should_escalate was asked after the fourth message of the scenario, with
\* two flagged messages counted.
C22_FourthWitness ==
    /\ last.op = "should_escalate"
    /\ SentFirst(last.user, 4)
    /\ user_profiles[last.user].flagged_messages = 2
    /\ last.result.escalate = FALSE

\* C23 as stated: after the five messages of that scenario the risk score
\* is above 60.
C23_AsClaimed ==
    \A u \in Authors :
        SentFirst(u, 5) => RatLt(Rat(60, 1), user_profiles[u].risk_score)

\* C23: after the five messages of that scenario the risk score is
\* 38.43587, and after each of the five it is below the initial 50: the
\* three messages of probability 0.85 raise it from 29.09, where the two
\* harmless ones left it, without bringing it to 60.
C23_ScenarioScore ==
    \A u \in Authors :
        /\ SentFirst(u, 2) => user_profiles[u].risk_score = Rat(2909, 100)
        /\ SentFirst(u, 5) => user_profiles[u].risk_score = Rat(3843587, 100000)
        /\ \A k \in 1..5 :
              SentFirst(u, k) => RatLt(user_profiles[u].risk_score, Rat(50, 1))

\* The fifth message of the scenario was classified and raised the score.
C23_Witness ==
    /\ last.op = "update"
    /\ SentFirst(last.user, 5)
    /\ RatLt(ProfileBefore.risk_score, ProfileAfter.risk_score)

\* C24: a channel message for which the classifier returns the error result
\* adds nothing to the author's flagged_messages and no case to the queue,
\* whatever the author's history is.
C24_ErrorResultSkipsEscalation ==
    (last.op = "channel" /\ last.prediction.error)
    => /\ ProfileAfter.flagged_messages = ProfileBefore.flagged_messages
       /\ mod_reports = last.queue_before

\* The window of user u: the buffered messages with their times.
WindowOf(conversations, u) ==
    IF u \in DOMAIN conversations THEN conversations[u] ELSE <<>>

\* The messages of a window, without their times.
MessagesIn(window) == [i \in 1..Len(window) |-> window[i].message]

\* C27: no window is longer than max_messages and every window holds its
\* messages in the order they were added; add_message puts the new message
\* last and keeps of the earlier ones a run that ends with the latest, so
\* what is dropped is the oldest; and context, asked for at least as
\* many messages as the window holds, returns the window's messages in that
\* order.
C27_WindowInInsertionOrder ==
    /\ \A u \in DOMAIN user_conversations :
          /\ Len(user_conversations[u]) <= max_messages
          /\ \A i \in 1..(Len(user_conversations[u]) - 1) :
                user_conversations[u][i].message.id
                   < user_conversations[u][i + 1].message.id
    /\ last.op = "add" =>
          LET earlier == WindowOf(last.conversations_before, last.user)
              window == user_conversations[last.user]
              dropped == Len(earlier) + 1 - Len(window)
          IN  /\ dropped >= 0
              /\ \A i \in 1..(Len(window) - 1) : window[i] = earlier[dropped + i]
              /\ window[Len(window)].message =
                    FollowingMessage(last.conversations_before, last.user)
    /\ (/\ last.op = "context"
        /\ last.include_recent >= Len(WindowOf(user_conversations, last.user)))
          => last.result = MessagesIn(WindowOf(user_conversations, last.user))

\* The 51st message of a user within a day: the window stayed at 50 messages
\* and lost the first one.
C27_Witness ==
    /\ last.op = "add"
    /\ Len(WindowOf(last.conversations_before, last.user)) = max_messages
    /\ Len(user_conversations[last.user]) = max_messages
    /\ user_conversations[last.user][1].message.id = 2
    /\ user_conversations[last.user][max_messages].message.id = max_messages + 1

\* context was asked for 51 messages of a full window and returned the 50.
C27_ContextWitness ==
    /\ last.op = "context"
    /\ last.include_recent > max_messages
    /\ Len(last.result) = max_messages
    /\ last.result[1].id = 2
    /\ last.result[max_messages].id = max_messages + 1

\* C28: in every window, no message was buffered more than time_window
\* before the message buffered last, so context returns none that is older
\* than that.
C28_NoStaleMessages ==
    \A u \in DOMAIN user_conversations :
        LET window == user_conversations[u]
        IN  \A i \in 1..Len(window) :
                window[Len(window)].timestamp - window[i].timestamp <= time_window

\* A message was added 25 hours after the oldest one of the window, which
\* left, and at most 24 hours after the next, which stayed.
C28_Witness ==
    /\ last.op = "add"
    /\ LET earlier == WindowOf(last.conversations_before, last.user)
           window == user_conversations[last.user]
       IN  /\ Len(earlier) >= 2
           /\ Len(window) = Len(earlier)
           /\ window[Len(window)].timestamp - earlier[1].timestamp > time_window
           /\ window[1] = earlier[2]

\* A message was added exactly 24 hours after the oldest one, which stayed.
C28_BoundaryWitness ==
    /\ last.op = "add"
    /\ LET window == user_conversations[last.user]
       IN  /\ Len(window) >= 2
           /\ window[Len(window)].timestamp - window[1].timestamp = time_window

\* C29: for every user and every include_recent >= 0, zero included, context
\* returns the min(include_recent, length of the window) latest messages of
\* the window in their order, and nothing for a user without a window.
C29_ContextIsMostRecent ==
    last.op = "context" =>
        LET window == WindowOf(user_conversations, last.user)
            n == Min(last.include_recent, Len(window))
        IN  /\ Len(last.result) = n
            /\ \A i \in 1..n :
                  last.result[i] = window[Len(window) - n + i].message

\* C25: with the handlers of one user's direct messages interleaved at
\* their awaits, the completion check of every handler finds the user's
\* session in the session map, and no handler that resumes after the message
\* lookup takes a finished session back to an unfinished state.
C25_InterleavedAsSequential ==
    /\ last.op = "sent" => ~last.raised
    /\ (last.op = "fetched" /\ report_complete(last.before))
          => report_complete(last.after)

\* The completion check of a handler did not find the session.
C25_KeyErrorReached == last.op = "sent" /\ last.raised

\* A finished session was taken back to NARROWING_DOWN_GROOMING.
C25_ReopenedReached ==
    /\ last.op = "fetched"
    /\ report_complete(last.before)
    /\ last.after.state = "NARROWING_DOWN_GROOMING"

\* C26: when a ban or a report to the authorities takes effect after its
\* confirmation, the only case whose status or actions change is the one
\* at the cursor at that moment, whatever commands were handled while the
\* confirmation was pending.
C26_OnlyCaseAtCursorChanges ==
    last.op = "confirmed" =>
        \A k \in 1..Len(mod_reports) :
            mod_reports[k] # last.queue_before[k] => k = current_report_index + 1

\* A confirmed ban completed the first case while the cursor was at the second.
C26_OffCursorReached ==
    /\ last.op = "confirmed"
    /\ last.task.action = Word_ban
    /\ current_report_index = 1
    /\ last.queue_before[1].status = "pending"
    /\ mod_reports[1].status = "completed"
    /\ mod_reports[2] = last.queue_before[2]

\* What the bot keeps under the key of user b: the conversation window, the
\* risk profile and the report dialog, each with whether it exists.
KeyedBy(b, conversations, profiles, sessions) ==
    <<b \in DOMAIN conversations, WindowOf(conversations, b),
      b \in DOMAIN profiles,
      IF b \in DOMAIN profiles THEN profiles[b] ELSE NewProfile,
      b \in DOMAIN sessions, SessionOf(sessions, b)>>

\* C30: handling a channel message or a direct message of user a changes
\* neither the window nor the profile nor the session of any other user b.
C30_OtherUsersUntouched ==
    [][\A a \in Users :
          (UserChannelMessage(a) \/ UserDirectMessage(a)) =>
              \A b \in Users \ {a} :
                  KeyedBy(b, user_conversations', user_profiles', reports')
                     = KeyedBy(b, user_conversations, user_profiles, reports)]_vars

\* A channel message of user 1 was processed while user 2 had a window, a
\* profile and a dialog in progress.
C30_Witness ==
    /\ last.op = "channel"
    /\ last.user = 1
    /\ Len(WindowOf(user_conversations, 1)) >= 1
    /\ Len(WindowOf(user_conversations, 2)) >= 1
    /\ 2 \in DOMAIN user_profiles
    /\ SessionOf(reports, 2).state = "NARROWING_DOWN_GROOMING"

\* A direct message of user 1 advanced user 1's dialog while user 2 had a
\* window, a profile and a dialog in progress.
C30_DMWitness ==
    /\ last.op = "dm"
    /\ last.user = 1
    /\ last.dispatched
    /\ last.before # last.after
    /\ Len(WindowOf(user_conversations, 2)) >= 1
    /\ 2 \in DOMAIN user_profiles
    /\ SessionOf(reports, 2).state = "NARROWING_DOWN_GROOMING"

\* A channel message of user 1 arrived when the first message of user 2 was
\* more than time_window old, and user 2's window still holds it.
C30_StaleWitness ==
    /\ last.op = "channel"
    /\ last.user = 1
    /\ Len(WindowOf(user_conversations, 2)) >= 1
    /\ clock - WindowOf(user_conversations, 2)[1].timestamp > time_window

\* C31: for a conversation text that is empty or has fewer than 5 characters
\* once the white space at its ends is removed, the classifier returns
\* probability 0.0, confidence 0.95, class 0, not grooming, without the error
\* key, and has not called the model.
C31_ShortTextShortCircuits ==
    (/\ last.op = "predict"
     /\ Len(Strip(last.content)) < 5)
        => /\ ~last.raised
           /\ last.result.grooming_probability = Rat(0, 1)
           /\ last.result.confidence = Rat(95, 100)
           /\ last.result.predicted_class = 0
           /\ ~last.result.is_grooming
           /\ ~last.result.error
           /\ last.calls = 0

\* A text of six characters, four of them left after stripping, was
\* classified while the model would have given it probability 1.0.
C31_Witness ==
    /\ last.op = "predict"
    /\ Len(last.content) = 6
    /\ Len(Strip(last.content)) = 4
    /\ last.prediction = ModelGives(100)
    /\ last.calls = 0

\* A text of five characters after stripping reached the model.
C31_LongEnoughWitness ==
    /\ last.op = "predict"
    /\ Len(Strip(last.content)) = 5
    /\ last.calls = 1
    /\ last.result.grooming_probability = Rat(1, 1)

\* C32: when the model call raises, the classifier returns, with the error
\* key set and probability 0, confidence 0, class 0, not grooming, and it
\* has called the model exactly once.
C32_FailureIsReportedOnce ==
    (/\ last.op = "predict"
     /\ Len(Strip(last.content)) >= 5
     /\ last.prediction.raises)
        => /\ ~last.raised
           /\ last.result.error
           /\ last.result.grooming_probability = Rat(0, 1)
           /\ last.result.confidence = Rat(0, 1)
           /\ last.result.predicted_class = 0
           /\ ~last.result.is_grooming
           /\ last.calls = 1

\* The model raised on a text long enough to reach it.
C32_Witness ==
    /\ last.op = "predict"
    /\ Len(Strip(last.content)) >= 5
    /\ last.prediction.raises
    /\ last.result.error

\* C33: for a user with a profile of score s, get_user_risk_level returns s
\* itself, with critical exactly when s >= 90, high exactly when
\* 75 <= s < 90, medium exactly when 60 <= s < 75, low exactly when
\* 40 <= s < 60, and minimal exactly when s < 40.
C33_LevelByBreakpoints ==
    (/\ last.op = "get_user_risk_level"
     /\ last.user \in DOMAIN user_profiles)
        => LET s == user_profiles[last.user].risk_score
               level == last.result.level
               AtLeast(n) == RatLe(Rat(n, 1), s)
           IN  /\ last.result.score = s
               /\ level \in {"critical", "high", "medium", "low", "minimal"}
               /\ level = "critical" <=> AtLeast(90)
               /\ level = "high" <=> (AtLeast(75) /\ ~AtLeast(90))
               /\ level = "medium" <=> (AtLeast(60) /\ ~AtLeast(75))
               /\ level = "low" <=> (AtLeast(40) /\ ~AtLeast(60))
               /\ level = "minimal" <=> ~AtLeast(40)

\* A score of exactly 75 was graded high.
C33_Witness ==
    /\ last.op = "get_user_risk_level"
    /\ last.user \in DOMAIN user_profiles
    /\ last.result.score = Rat(75, 1)
    /\ last.result.level = "high"

\* A score between 39 and 40 that is no whole number was graded minimal.
C33_FractionWitness ==
    /\ last.op = "get_user_risk_level"
    /\ last.user \in DOMAIN user_profiles
    /\ last.result.score.den > 1
    /\ RatLt(Rat(39, 1), last.result.score)
    /\ last.result.level = "minimal"

\* C34: with the handlers of an author's channel messages interleaved at
\* their awaits, the author's total_messages is the number of messages
\* processed; the assessment of each message is the one of the profile as its
\* own update left it, the window ending with that message; and the handlers
\* in flight hold the assessments of different messages, in their order.
C34_PrefixIsAtomic ==
    /\ \A u \in Authors :
          (IF u \in DOMAIN user_profiles
           THEN user_profiles[u].total_messages ELSE 0) = fed[u]
    /\ last.op = "channel arrives" =>
          LET u == last.user
              updated == update_user_score(last.profiles_before, u, last.prediction)
              window == user_conversations[u]
          IN  /\ user_profiles = updated
              /\ last.result.total_messages = fed[u]
              /\ last.result.should_escalate = should_escalate(updated, u).escalate
              /\ last.result.escalation_reason = should_escalate(updated, u).reason
              /\ last.result.risk_score = updated[u].risk_score
              /\ window[Len(window)].message.id = fed[u]
    /\ \A j, k \in 1..Len(tasks) :
          (j < k /\ tasks[j].user = tasks[k].user)
             => /\ tasks[j].assessment.total_messages
                      < tasks[k].assessment.total_messages
                /\ tasks[j].message.id < tasks[k].message.id

\* A second message of the author was assessed while the handler of the
\* first was still waiting for its analysis to be sent.
C34_Witness ==
    /\ last.op = "channel arrives"
    /\ Len(tasks) = 2
    /\ tasks[1].user = tasks[2].user
    /\ tasks[1].assessment.total_messages = 1
    /\ tasks[2].assessment.total_messages = 2
    /\ tasks[2].assessment.risk_score # tasks[1].assessment.risk_score

\* The handler of the second message finished before the one of the first.
C34_OvertakenWitness ==
    /\ last.op = "analysis sent"
    /\ last.task.assessment.total_messages = 2
    /\ Len(tasks) = 1
    /\ tasks[1].assessment.total_messages = 1

\* The pending cases of the queue that the automatic escalation opened for
\* user u.
PendingAutomatic(queue, u) ==
    { k \in 1..Len(queue) :
        /\ queue[k].status = "pending"
        /\ queue[k].reason = "Automatic AI Detection"
        /\ queue[k].reported_user_id = u }

\* C35: the queue never holds more than one pending automatic-escalation
\* case for the same user.
C35_OnePendingAutomaticCase ==
    \A u \in Authors : Cardinality(PendingAutomatic(mod_reports, u)) <= 1

\* C36: no case ever has more than one entry in its mod_actions, so a
\* completed case is not changed by a later command.
C36_CompletedCaseIsFinal ==
    \A k \in 1..Len(mod_reports) : Len(mod_reports[k].mod_actions) <= 1

\* An !action command added a second action to the case at the cursor,
\* which was completed already.
C36_SecondActionReached ==
    /\ last.op = "action"
    /\ last.cursor_before >= 0
    /\ last.queue_before[last.cursor_before + 1].status = "completed"
    /\ Len(mod_reports[last.cursor_before + 1].mod_actions) = 2

\* C37: in every state a case is completed exactly when its mod_actions is
\* not empty, and no step takes a completed case back to pending.
C37_CompletedIffActed ==
    /\ [](\A k \in 1..Len(mod_reports) :
             mod_reports[k].status = "completed"
                <=> mod_reports[k].mod_actions # <<>>)
    /\ [][\A k \in 1..Len(mod_reports) :
             mod_reports[k].status = "completed"
                => mod_reports'[k].status = "completed"]_vars

\* A disposition completed the first case while the second is pending and
\* untouched.
C37_Witness ==
    /\ last.op = "action"
    /\ Len(mod_reports) = 2
    /\ last.queue_before[1].status = "pending"
    /\ mod_reports[1].status = "completed"
    /\ Len(mod_reports[1].mod_actions) = 1
    /\ mod_reports[2].status = "pending"
    /\ mod_reports[2].mod_actions = <<>>

\* A command moved the cursor or filed a report after a case was completed,
\* and the case stayed completed.
C37_StaysWitness ==
    /\ last.op \in {"next", "file"}
    /\ Len(last.queue_before) >= 1
    /\ last.queue_before[1].status = "completed"
    /\ mod_reports[1].status = "completed"

\* C39: in every state the cursor is -1 or the position of a case of the
\* queue; once it has left -1 it never returns to it; and a !next on a queue
\* that is not empty leaves it at a position of the queue.  So a command that
\* passes the test for a selected report finds a case at the cursor.
C39_CursorIsUnsetOrValid ==
    /\ [](\/ current_report_index = 0 - 1
          \/ (0 <= current_report_index /\ current_report_index < Len(mod_reports)))
    /\ [][current_report_index' = 0 - 1 => current_report_index = 0 - 1]_vars
    /\ [][(last'.op = "next" /\ mod_reports # <<>>)
             => current_report_index' >= 0]_vars
    /\ []((last.op = "action" /\ last.dispatched)
             => (0 <= last.cursor_before /\ last.cursor_before < Len(last.queue_before)))

\* !next was sent when every case of the queue was completed and the cursor
\* was at the last one: it came back to a position of the queue.
C39_Witness ==
    /\ last.op = "next"
    /\ Len(mod_reports) = 2
    /\ \A k \in 1..2 : mod_reports[k].status = "completed"
    /\ last.cursor_before = 1
    /\ current_report_index \in {0, 1}

\* A disposition was applied while the queue held two cases and the cursor
\* was at the second.
C39_DereferenceWitness ==
    /\ last.op = "action"
    /\ last.dispatched
    /\ last.cursor_before = 1
    /\ mod_reports[2].status = "completed"

\* The first !next on a queue that is not empty took the cursor from -1 to
\* the first case.
C39_UnsetWitness ==
    /\ last.op = "next"
    /\ last.cursor_before = 0 - 1
    /\ mod_reports # <<>>
    /\ current_report_index = 0

\* C38: should_escalate never gives the reason of its third rule; when it
\* says yes, the reason is the critical score if the risk score is at least
\* 90 and the multiple flags otherwise.
C38_ThirdRuleNeverAnswers ==
    last.op = "should_escalate" =>
        /\ last.result.reason # "Consistent high-risk behavior"
        /\ last.result.escalate =>
              LET critical == RatLe(Rat(90, 1), user_profiles[last.user].risk_score)
              IN  /\ last.result.reason \in {"Critical risk score",
                                             "Multiple high-confidence flags"}
                  /\ last.result.reason = "Critical risk score" <=> critical

\* should_escalate said yes for a profile below 90 whose history has at
\* least 5 entries, 3 of the last 5 above both thresholds.
C38_Witness ==
    /\ last.op = "should_escalate"
    /\ last.result.escalate
    /\ Len(user_profiles[last.user].predictions_history) >= 5
    /\ HighConfidenceFlags(LastN(user_profiles[last.user].predictions_history, 5)) >= 3
    /\ last.result.reason = "Multiple high-confidence flags"

\* should_escalate said yes for the critical score of a profile that also
\* has three flags.
C38_CriticalWitness ==
    /\ last.op = "should_escalate"
    /\ last.result.reason = "Critical risk score"
    /\ HighConfidenceFlags(user_profiles[last.user].predictions_history) >= 3

\* The kinds of the consequences applied to user u so far, oldest first.
KindsApplied(u) ==
    IF u \in DOMAIN consequences
    THEN [i \in 1..Len(consequences[u]) |-> consequences[u][i].kind]
    ELSE <<>>

\* C40: over the messages logged for one user the automatic consequence of
\* a message is the one of the highest band its stored score is in, report
\* to law above 80, ban above 75, suspension above 65, and none otherwise
\* or when the user already has it; no message has two consequences, no
\* user has the same consequence twice, and no user is suspended after
\* being banned or reported.
C40_ConsequencesByPriorityOnce ==
    /\ last.logged =>
          LET score == last.stored.risk_score
              was == last.stats_before
              had == IF last.user \in DOMAIN was THEN was[last.user] ELSE NewUser
              band == IF RatLt(Rat(80, 1), score) THEN "report"
                      ELSE IF RatLt(Rat(75, 1), score) THEN "ban"
                      ELSE IF RatLt(Rat(65, 1), score) THEN "suspend"
                      ELSE "none"
          IN  /\ last.consequence \in {band, "none"}
              /\ last.consequence = "none" <=>
                    \/ band = "none"
                    \/ band = "report" /\ had.reported_law
                    \/ band = "ban" /\ had.banned
                    \/ band = "suspend" /\ (had.suspended \/ had.banned)
    /\ \A u \in DOMAIN consequences :
          LET applied == consequences[u]
          IN  /\ \A i, j \in 1..Len(applied) :
                    i # j => /\ applied[i].message # applied[j].message
                             /\ applied[i].kind # applied[j].kind
              /\ \A i, j \in 1..Len(applied) :
                    i < j /\ applied[j].kind = "suspend"
                        => applied[i].kind \notin {"ban", "report"}

\* A user was suspended by one message and banned by a later one.
C40_Witness == \E u \in Authors : KindsApplied(u) = <<"suspend", "ban">>

\* A user was banned by one message and reported to law by a later one.
C40_ReportedAfterBanWitness ==
    \E u \in Authors : KindsApplied(u) = <<"ban", "report">>

\* A message of a banned user who was never suspended is logged with a
\* stored score in the band of the suspension, and nothing is applied.
C40_BannedNotSuspendedWitness ==
    /\ last.logged
    /\ last.consequence = "none"
    /\ RatLt(Rat(65, 1), last.stored.risk_score)
    /\ RatLe(last.stored.risk_score, Rat(75, 1))
    /\ last.user \in DOMAIN last.stats_before
    /\ last.stats_before[last.user].banned
    /\ ~last.stats_before[last.user].suspended

====
